---------------------------- MODULE Spec2Model ----------------------------
(***************************************************************************)
(* FarePlay discovery service: the signed write protocols (register,       *)
(* heartbeat, update), the inactivity sweep and the registry store they    *)
(* write through, modelled from src/src/routes/casinos.ts,                 *)
(* src/src/services/casinoService.ts, src/src/middleware/validation.ts,    *)
(* src/src/types/index.ts and the crypto helpers (src/unnamed/part_005).   *)
(*                                                                         *)
(* Every await on the store is one step of a request, so requests          *)
(* interleave exactly where the handlers can be suspended.                 *)
(***************************************************************************)
EXTENDS Integers, Sequences, FiniteSets, TLC

VARIABLES
    casinos,      \* the Casino table: a sequence of rows, row i has id i
    heartbeats,   \* the Heartbeat table: the append-only log of rows
    inflight,     \* the set of requests being handled, suspended at an await
    reply,        \* the response sent by the step just taken (NoReply if none)
    now,          \* the server clock (Date.now()), in minutes
    submitted     \* how many requests have arrived so far

vars == <<casinos, heartbeats, inflight, reply, now, submitted>>

-----------------------------------------------------------------------------
(* Bounds of the model *)

\* the most requests that arrive in one behaviour
MaxRequests == 3
\* the most requests handled at the same time
MaxInFlight == 2
\* the last value of the server clock
MaxTime == 2
\* the most heartbeats and updates that arrive in one behaviour of SpecWrite
MaxWrites == 2
\* the last value of the server clock where heartbeats can grow stale
MaxClock == 3

-----------------------------------------------------------------------------
(* Optional values: a field that may be undefined / NULL *)

None == <<>>
Some(v) == <<v>>
IsSome(o) == o # <<>>
\* a || b on optional values
OrElse(o, d) == IF o = <<>> THEN d ELSE o[1]

-----------------------------------------------------------------------------
(* JSON values and JSON.stringify(value, replacerArray) *)

JStr(s) == [t |-> "str", s |-> s, kv |-> <<>>]
JNum(n) == [t |-> "num", s |-> ToString(n), kv |-> <<>>]
JObj(kv) == [t |-> "obj", s |-> "", kv |-> kv]
JArr(elems) == [t |-> "arr", s |-> "",
                kv |-> [i \in 1..Len(elems) |-> [k |-> "", v |-> elems[i]]]]
Prop(k, v) == <<[k |-> k, v |-> v]>>
OptStr(k, o) == IF o = <<>> THEN <<>> ELSE Prop(k, JStr(o[1]))
OptNum(k, o) == IF o = <<>> THEN <<>> ELSE Prop(k, JNum(o[1]))
StrArr(seq) == JArr([i \in 1..Len(seq) |-> JStr(seq[i])])

\* Object.keys(obj): the property names in insertion order
ObjectKeys(obj) == [i \in 1..Len(obj.kv) |-> obj.kv[i].k]

\* The property names the request schemas allow at the top level, in the
\* order String.prototype comparison gives them (UTF-16 code units).
KeyOrder == <<"casinoId", "metadata", "metrics", "name", "publicKey",
              "status", "timestamp", "url">>

\* Array.prototype.sort() on an array of those names
SortKeysAsInserted(keys) == keys
SortKeys(keys) ==
    SelectSeq(KeyOrder, LAMBDA k : \E i \in 1..Len(keys) : keys[i] = k)

\* The { signature, ...dataToSign } destructuring: every own property but
\* signature, in the same order
WithoutSignature(obj) ==
    JObj(SelectSeq(obj.kv, LAMBDA p : p.k # "signature"))

RECURSIVE Stringify(_, _)
RECURSIVE StringifyProps(_, _, _, _)
RECURSIVE StringifyElems(_, _, _)

\* SerializeJSONObject with a PropertyList: the names of the replacer array,
\* in the replacer's order, are the only properties written, and the same
\* list is applied to every object nested inside.
StringifyProps(kv, K, i, first) ==
    IF i > Len(K) THEN <<>>
    ELSE LET hit == SelectSeq(kv, LAMBDA p : p.k = K[i])
         IN IF hit = <<>>
            THEN StringifyProps(kv, K, i + 1, first)
            ELSE (IF first THEN <<>> ELSE <<",">>)
                 \o <<K[i], ":">> \o Stringify(hit[Len(hit)].v, K)
                 \o StringifyProps(kv, K, i + 1, FALSE)

\* SerializeJSONArray: every element is written
StringifyElems(kv, K, i) ==
    IF i > Len(kv) THEN <<>>
    ELSE (IF i = 1 THEN <<>> ELSE <<",">>)
         \o Stringify(kv[i].v, K) \o StringifyElems(kv, K, i + 1)

\* JSON.stringify(v, K) as the sequence of tokens of the text it returns
Stringify(v, K) ==
    CASE v.t = "str" -> <<"\"", v.s, "\"">>
      [] v.t = "num" -> <<v.s>>
      [] v.t = "arr" -> <<"[">> \o StringifyElems(v.kv, K, 1) \o <<"]">>
      [] OTHER       -> <<"{">> \o StringifyProps(v.kv, K, 1, TRUE) \o <<"}">>

\* The message the three write handlers verify:
\*   const { signature, ...dataToSign } = body;
\*   JSON.stringify(dataToSign, Object.keys(dataToSign).sort())
SignedMessage(obj) ==
    LET dataToSign == WithoutSignature(obj)
    IN Stringify(dataToSign, SortKeys(ObjectKeys(dataToSign)))

-----------------------------------------------------------------------------
(* Ed25519 detached signatures over base58 text *)

\* Public keys that new PublicKey(text) accepts; each has one private key,
\* held by its owner.
WellFormedKeys == {"K1AAAAAAAAAAAAAAAAAAAAAAAAAAAAAA",
                   "K2BBBBBBBBBBBBBBBBBBBBBBBBBBBBBB",
                   "K3CCCCCCCCCCCCCCCCCCCCCCCCCCCCCC"}
\* A string of the right length that is not a public key (0, O, I and l
\* are not base58 digits)
MalformedKey == "0OIl0OIl0OIl0OIl0OIl0OIl0OIl0OIl"

\* nacl.sign.detached(message, secretKey of key), base58-encoded
Sign(key, message) == [enc |-> "base58", signer |-> key, msg |-> message]
\* A string that bs58.decode rejects or that is not 64 bytes long
GarbageSignature == [enc |-> "garbage", signer |-> "", msg |-> <<>>]
\* The empty string
EmptySignature == [enc |-> "empty", signer |-> "", msg |-> <<>>]

isValidSolanaPublicKey(publicKey) == publicKey \in WellFormedKeys

\* nacl.sign.detached.verify: the signature was made over exactly these
\* bytes by the private key of this public key
NaclVerifyBroken(message, signature, publicKey) == signature.msg = message
NaclVerify(message, signature, publicKey) ==
    signature.signer = publicKey /\ signature.msg = message

\* Any throw (undecodable or wrong-size signature, malformed key) is caught
\* and reported as false.
verifySolanaSignature(message, signature, publicKey) ==
    IF signature.enc # "base58" \/ publicKey \notin WellFormedKeys
    THEN FALSE
    ELSE NaclVerify(message, signature, publicKey)


-----------------------------------------------------------------------------
(* Request schemas (zod) *)

CasinoStatuses == {"online", "offline", "maintenance", "suspended"}

GameTypes == {"slots", "roulette", "dice", "crash", "coinflip", "rps",
              "bombs", "cards", "coinFlip", "plinko", "cards_1", "slots_1",
              "cryptoLaunch", "cryptoLaunch_1"}

\* The strings z.string().url() accepts, among those the model sends
Urls == {"https://a.example", "https://b.example"}
NotAUrl == "not a url"

AllIn(seq, S) == \A i \in 1..Len(seq) : seq[i] \in S
OptOk(o, S) == o = <<>> \/ o[1] \in S
OptUrl(o) == o = <<>> \/ o[1] \in Urls
OptPositive(o) == o = <<>> \/ o[1] > 0
OptNonNegative(o) == o = <<>> \/ o[1] >= 0
OptMaxLen(o, n) == o = <<>> \/ Len(o[1]) <= n

SocialLinksOk(o) ==
    o = <<>> \/ ( /\ OptUrl(o[1].twitter) /\ OptUrl(o[1].discord)
                  /\ OptUrl(o[1].telegram) /\ OptUrl(o[1].website) )

\* The metadata object of RegistrationRequestSchema and of
\* CasinoUpdateRequestSchema (the same fields; they differ in the defaults)
MetadataOk(m) ==
    /\ OptMaxLen(m.description, 500)
    /\ (m.games = <<>> \/ AllIn(m.games[1], GameTypes))
    /\ OptUrl(m.logo) /\ OptUrl(m.banner)
    /\ SocialLinksOk(m.socialLinks)
    /\ OptPositive(m.maxBetAmount) /\ OptPositive(m.minBetAmount)

\* RegistrationRequestSchema.parse succeeds
RegistrationShapeOk(raw) ==
    /\ Len(raw.name) >= 1 /\ Len(raw.name) <= 100
    /\ raw.url \in Urls
    /\ Len(raw.publicKey) >= 32 /\ Len(raw.publicKey) <= 44
    /\ MetadataOk(raw.metadata)

\* What RegistrationRequestSchema.parse returns: the defaults are filled in
RegistrationParse(raw) ==
    [raw EXCEPT !.metadata.games = Some(OrElse(@, <<>>)),
                !.metadata.supportedTokens = Some(OrElse(@, <<"SOL">>))]

MetricsOk(o) ==
    o = <<>> \/ ( /\ OptNonNegative(o[1].activePlayers)
                  /\ OptNonNegative(o[1].totalBets24h)
                  /\ OptNonNegative(o[1].uptime)
                  /\ OptPositive(o[1].responseTime) )

\* A casino id is a row number; 0 stands for a string that is no UUID
IsUuid(id) == id >= 1

\* HeartbeatPayloadSchema.parse succeeds (it has no defaults)
HeartbeatShapeOkAnyStatus(raw) ==
    IsUuid(raw.casinoId) /\ raw.timestamp > 0 /\ MetricsOk(raw.metrics)
HeartbeatShapeOk(raw) ==
    /\ IsUuid(raw.casinoId)
    /\ raw.status \in CasinoStatuses
    /\ raw.timestamp > 0
    /\ MetricsOk(raw.metrics)

\* CasinoUpdateRequestSchema.parse succeeds (it has no defaults)
UpdateShapeOk(raw) ==
    /\ IsUuid(raw.casinoId)
    /\ (raw.name = <<>> \/ (Len(raw.name[1]) >= 1 /\ Len(raw.name[1]) <= 100))
    /\ OptUrl(raw.url)
    /\ OptOk(raw.status, CasinoStatuses)
    /\ (raw.metadata = <<>> \/ MetadataOk(raw.metadata[1]))

-----------------------------------------------------------------------------
(* The parsed bodies as JSON objects, properties in the schema's order *)

SocialLinksJson(l) ==
    JObj(OptStr("twitter", l.twitter) \o OptStr("discord", l.discord)
         \o OptStr("telegram", l.telegram) \o OptStr("website", l.website))

MetadataJson(m) ==
    JObj(OptStr("description", m.description)
         \o (IF m.games = <<>> THEN <<>> ELSE Prop("games", StrArr(m.games[1])))
         \o OptStr("logo", m.logo) \o OptStr("banner", m.banner)
         \o (IF m.socialLinks = <<>> THEN <<>>
             ELSE Prop("socialLinks", SocialLinksJson(m.socialLinks[1])))
         \o OptNum("maxBetAmount", m.maxBetAmount)
         \o OptNum("minBetAmount", m.minBetAmount)
         \o (IF m.supportedTokens = <<>> THEN <<>>
             ELSE Prop("supportedTokens", StrArr(m.supportedTokens[1]))))

\* The text of the signature property does not matter: the message is made
\* of the other properties (see WithoutSignature).
RegistrationJson(body) ==
    JObj(Prop("name", JStr(body.name)) \o Prop("url", JStr(body.url))
         \o Prop("publicKey", JStr(body.publicKey))
         \o Prop("signature", JStr("sig"))
         \o Prop("metadata", MetadataJson(body.metadata)))

MetricsJson(m) ==
    JObj(OptNum("activePlayers", m.activePlayers)
         \o OptNum("totalBets24h", m.totalBets24h)
         \o OptNum("uptime", m.uptime)
         \o OptNum("responseTime", m.responseTime))

HeartbeatJsonUndated(body) ==
    JObj(Prop("casinoId", JNum(body.casinoId))
         \o Prop("status", JStr(body.status))
         \o (IF body.metrics = <<>> THEN <<>>
             ELSE Prop("metrics", MetricsJson(body.metrics[1])))
         \o Prop("signature", JStr("sig")))
HeartbeatJson(body) ==
    JObj(Prop("casinoId", JNum(body.casinoId))
         \o Prop("status", JStr(body.status))
         \o Prop("timestamp", JNum(body.timestamp))
         \o (IF body.metrics = <<>> THEN <<>>
             ELSE Prop("metrics", MetricsJson(body.metrics[1])))
         \o Prop("signature", JStr("sig")))

UpdateJson(body) ==
    JObj(Prop("casinoId", JNum(body.casinoId))
         \o OptStr("name", body.name) \o OptStr("url", body.url)
         \o OptStr("status", body.status)
         \o (IF body.metadata = <<>> THEN <<>>
             ELSE Prop("metadata", MetadataJson(body.metadata[1])))
         \o Prop("signature", JStr("sig")))


-----------------------------------------------------------------------------
(* The registry store (Prisma over PostgreSQL) *)

\* HEARTBEAT_TIMEOUT_MINUTES as the model runs it (the default is 10)
HEARTBEAT_TIMEOUT == 1

\* prisma.casino.findUnique({ where: { publicKey } }): the row or null
CasinoFindUniqueByKeyBroken(publicKey) == None
CasinoFindUniqueByKey(publicKey) ==
    IF \E i \in 1..Len(casinos) : casinos[i].publicKey = publicKey
    THEN Some(casinos[CHOOSE i \in 1..Len(casinos) :
                          casinos[i].publicKey = publicKey])
    ELSE None

\* prisma.casino.findUnique({ where: { id } }): the row or null
CasinoFindUniqueById(id) ==
    IF id \in 1..Len(casinos) THEN Some(casinos[id]) ELSE None

\* publicKey String @unique: the index is checked when the row is written
UniqueViolation(publicKey) ==
    \E i \in 1..Len(casinos) : casinos[i].publicKey = publicKey

\* The row prisma.casino.create inserts for registerCasino's data; the store
\* supplies id (@default(uuid())), createdAt (@default(now())), updatedAt
\* (@updatedAt) and leaves lastHeartbeat NULL.
CasinoRow(id, input, time) ==
    LET links == input.metadata.socialLinks
    IN [id              |-> id,
        publicKey       |-> input.publicKey,
        name            |-> input.name,
        url             |-> input.url,
        status          |-> "online",
        description     |-> input.metadata.description,
        games           |-> OrElse(input.metadata.games, <<>>),
        logo            |-> input.metadata.logo,
        banner          |-> input.metadata.banner,
        twitterUrl      |-> IF links = <<>> THEN None ELSE links[1].twitter,
        discordUrl      |-> IF links = <<>> THEN None ELSE links[1].discord,
        telegramUrl     |-> IF links = <<>> THEN None ELSE links[1].telegram,
        websiteUrl      |-> IF links = <<>> THEN None ELSE links[1].website,
        maxBetAmount    |-> input.metadata.maxBetAmount,
        minBetAmount    |-> input.metadata.minBetAmount,
        supportedTokens |-> OrElse(input.metadata.supportedTokens, <<"SOL">>),
        version         |-> "1.0.0",
        createdAt       |-> time,
        updatedAt       |-> time,
        lastHeartbeat   |-> None]

NewCasinoRow(input) == CasinoRow(Len(casinos) + 1, input, now)

\* The Casino table after prisma.casino.create(row): a row whose publicKey is
\* already there is refused by the unique index and nothing is written.
CasinoTableAfterCreateUnchecked(row) == Append(casinos, row)
CasinoTableAfterCreateUpsert(row) ==
    IF UniqueViolation(row.publicKey)
    THEN [i \in 1..Len(casinos) |->
            IF casinos[i].publicKey = row.publicKey THEN row ELSE casinos[i]]
    ELSE Append(casinos, row)
CasinoTableAfterCreate(row) ==
    IF UniqueViolation(row.publicKey) THEN casinos ELSE Append(casinos, row)

\* x || undefined
OrUndefined(o) == IF o = <<>> \/ o[1] = "" THEN None ELSE o
NumOrUndefined(o) == IF o = <<>> \/ o[1] = 0 THEN None ELSE o

\* formatCasinoResponse
formatCasinoResponse(casino) ==
    [id            |-> casino.id,
     name          |-> casino.name,
     url           |-> casino.url,
     publicKey     |-> casino.publicKey,
     status        |-> casino.status,
     metadata      |->
        [description     |-> OrUndefined(casino.description),
         games           |-> casino.games,
         logo            |-> OrUndefined(casino.logo),
         banner          |-> OrUndefined(casino.banner),
         socialLinks     |-> [twitter  |-> OrUndefined(casino.twitterUrl),
                              discord  |-> OrUndefined(casino.discordUrl),
                              telegram |-> OrUndefined(casino.telegramUrl),
                              website  |-> OrUndefined(casino.websiteUrl)],
         maxBetAmount    |-> NumOrUndefined(casino.maxBetAmount),
         minBetAmount    |-> NumOrUndefined(casino.minBetAmount),
         supportedTokens |-> casino.supportedTokens],
     createdAt     |-> casino.createdAt,
     updatedAt     |-> casino.updatedAt,
     lastHeartbeat |-> casino.lastHeartbeat,
     version       |-> casino.version]

-----------------------------------------------------------------------------
(* Requests and responses *)

NoReply == [kind |-> "none"]

\* A request as it arrives. ops is the list of the store and crypto calls the
\* request has made so far; found is the row its last lookup returned;
\* existed records whether the key (register) or the id (heartbeat, update)
\* it names was in the store when it arrived.
NewRequest(kind, body, existed) ==
    [n |-> submitted + 1, kind |-> kind, body |-> body, pc |-> "arrived",
     found |-> None, ops |-> <<>>, existed |-> existed]

\* reply.status(http).send({ success, data | error: { code, message } })
RespondExplaining(r, http, code, message, data) ==
    [kind |-> r.kind, n |-> r.n, http |-> http, code |-> code,
     message |-> IF code = "INVALID_SIGNATURE"
                    /\ r.body.signature.enc # "base58"
                 THEN "Malformed signature" ELSE message,
     data |-> data, req |-> r]
Respond(r, http, code, message, data) ==
    [kind |-> r.kind, n |-> r.n, http |-> http, code |-> code,
     message |-> message, data |-> data, req |-> r]

Did(r, op) == [r EXCEPT !.ops = Append(@, op)]
Count(seq, S) == Cardinality({i \in 1..Len(seq) : seq[i] \in S})
StoreWrites == {"casino.create", "heartbeat.create", "casino.update"}
StoreOps ==
    StoreWrites \cup {"casino.findUnique", "casino.create:refused",
                      "casino.findMany", "casino.count",
                      "heartbeat.count"}

\* errorHandler: what a thrown error becomes. An error that is none of the
\* named messages and has no statusCode is a 500 INTERNAL_ERROR.
ErrorHandler(r, message) ==
    CASE message = "CASINO_NOT_FOUND" ->
            Respond(r, 404, "CASINO_NOT_FOUND", message, None)
      [] message = "CASINO_ALREADY_EXISTS" ->
            Respond(r, 409, "CASINO_ALREADY_EXISTS", message, None)
      [] message = "INVALID_SIGNATURE" ->
            Respond(r, 401, "INVALID_SIGNATURE", message, None)
      [] message = "UNAUTHORIZED" ->
            Respond(r, 401, "UNAUTHORIZED", message, None)
      [] OTHER ->
            Respond(r, 500, "INTERNAL_ERROR", "Internal server error", None)

CanArrive == submitted < MaxRequests /\ Cardinality(inflight) < MaxInFlight

-----------------------------------------------------------------------------
(* POST /api/casinos/register *)

\* verifyRegistrationSignature: the response it sends, or "next" when the
\* request goes on to the handler
verifyRegistrationSignature(body) ==
    IF body.signature.enc = "empty"
    THEN [code |-> "INVALID_REQUEST", http |-> 400,
          message |-> "Missing signature", verified |-> FALSE]
    ELSE IF body.publicKey = ""
    THEN [code |-> "INVALID_REQUEST", http |-> 400,
          message |-> "Missing publicKey", verified |-> FALSE]
    ELSE IF ~isValidSolanaPublicKey(body.publicKey)
    THEN [code |-> "INVALID_REQUEST", http |-> 400,
          message |-> "Invalid Solana public key format", verified |-> FALSE]
    ELSE IF ~verifySolanaSignature(SignedMessage(RegistrationJson(body)),
                                   body.signature, body.publicKey)
    THEN [code |-> "INVALID_SIGNATURE", http |-> 401,
          message |-> "Signature verification failed", verified |-> TRUE]
    ELSE [code |-> "next", http |-> 0, message |-> "", verified |-> TRUE]

\* The preHandler chain of POST /register: validateBody, then
\* verifyRegistrationSignature on the parsed body
RegisterPreHandlersLookupFirst(raw) ==
    IF ~RegistrationShapeOk(raw)
    THEN [code |-> "VALIDATION_ERROR", http |-> 400,
          message |-> "Invalid request body", verified |-> FALSE]
    ELSE IF UniqueViolation(raw.publicKey)
    THEN [code |-> "CASINO_ALREADY_EXISTS", http |-> 409,
          message |-> "Casino with this public key is already registered",
          verified |-> FALSE]
    ELSE verifyRegistrationSignature(RegistrationParse(raw))
RegisterPreHandlers(raw) ==
    IF ~RegistrationShapeOk(raw)
    THEN [code |-> "VALIDATION_ERROR", http |-> 400,
          message |-> "Invalid request body", verified |-> FALSE]
    ELSE verifyRegistrationSignature(RegistrationParse(raw))

\* A registration arrives and runs its preHandlers (no await on the store)
RegisterArrive(raw) ==
    /\ CanArrive
    /\ LET pre == RegisterPreHandlers(raw)
           r0  == NewRequest("register", raw, UniqueViolation(raw.publicKey))
           r   == IF pre.verified THEN Did(r0, "verify") ELSE r0
       IN IF pre.code = "next"
          THEN /\ inflight' = inflight \cup
                    {[r EXCEPT !.body = RegistrationParse(raw),
                               !.pc = "findUnique"]}
               /\ reply' = NoReply
          ELSE /\ inflight' = inflight
               /\ reply' = Respond(r, pre.http, pre.code, pre.message, None)
    /\ submitted' = submitted + 1
    /\ UNCHANGED <<casinos, heartbeats, now>>

\* registerCasino: await prisma.casino.findUnique; a row found is
\* CASINO_ALREADY_EXISTS, which the route answers with 409
RegisterFindUnique(r) ==
    /\ r \in inflight /\ r.kind = "register" /\ r.pc = "findUnique"
    /\ LET existing == CasinoFindUniqueByKey(r.body.publicKey)
           r1 == Did(r, "casino.findUnique")
       IN IF IsSome(existing)
          THEN /\ inflight' = inflight \ {r}
               /\ reply' = Respond(r1, 409, "CASINO_ALREADY_EXISTS",
                      "Casino with this public key is already registered",
                      None)
          ELSE /\ inflight' = (inflight \ {r}) \cup {[r1 EXCEPT !.pc = "create"]}
               /\ reply' = NoReply
    /\ UNCHANGED <<casinos, heartbeats, now, submitted>>

\* registerCasino: await prisma.casino.create. The unique index refuses a
\* second row with the key; Prisma throws its own error (P2002), which is not
\* CASINO_ALREADY_EXISTS, so the route rethrows it to errorHandler.
RegisterCreate(r) ==
    /\ r \in inflight /\ r.kind = "register" /\ r.pc = "create"
    /\ LET row == NewCasinoRow(r.body)
       IN /\ casinos' = CasinoTableAfterCreate(row)
          /\ IF UniqueViolation(row.publicKey)
             THEN reply' = ErrorHandler(Did(r, "casino.create:refused"),
                                        "Unique constraint failed")
             ELSE reply' = Respond(Did(r, "casino.create"), 201, "OK", "",
                                   Some(formatCasinoResponse(row)))
    /\ inflight' = inflight \ {r}
    /\ UNCHANGED <<heartbeats, now, submitted>>


-----------------------------------------------------------------------------
(* Store writes shared by heartbeat, update and the sweep *)

\* A Prisma update input: for each column, the value to set or None when the
\* column is not named
NoChange ==
    [name |-> None, url |-> None, status |-> None, description |-> None,
     games |-> None, logo |-> None, banner |-> None, twitterUrl |-> None,
     discordUrl |-> None, telegramUrl |-> None, websiteUrl |-> None,
     maxBetAmount |-> None, minBetAmount |-> None, supportedTokens |-> None,
     lastHeartbeat |-> None]

\* The row after the update: the named columns are set, updatedAt is
\* refreshed by the store (@updatedAt), every other column is kept.
UpdatedRowRestamped(row, data) ==
    [row EXCEPT !.name = OrElse(data.name, @),
                !.status = OrElse(data.status, @),
                !.createdAt = now, !.updatedAt = now]
UpdatedRowReplacing(row, data) ==
    [row EXCEPT
       !.name            = OrElse(data.name, @),
       !.url             = OrElse(data.url, @),
       !.status          = OrElse(data.status, @),
       !.description     = data.description,
       !.games           = OrElse(data.games, <<>>),
       !.logo            = data.logo,
       !.banner          = data.banner,
       !.twitterUrl      = data.twitterUrl,
       !.discordUrl      = data.discordUrl,
       !.telegramUrl     = data.telegramUrl,
       !.websiteUrl      = data.websiteUrl,
       !.maxBetAmount    = data.maxBetAmount,
       !.minBetAmount    = data.minBetAmount,
       !.supportedTokens = OrElse(data.supportedTokens, @),
       !.lastHeartbeat   = IF data.lastHeartbeat = <<>> THEN @ ELSE data.lastHeartbeat,
       !.updatedAt       = now]
UpdatedRowLinksTogether(row, data) ==
    LET links == \/ data.twitterUrl # <<>> \/ data.discordUrl # <<>>
                 \/ data.telegramUrl # <<>> \/ data.websiteUrl # <<>>
    IN [row EXCEPT
          !.name            = OrElse(data.name, @),
          !.url             = OrElse(data.url, @),
          !.status          = OrElse(data.status, @),
          !.description     = IF data.description = <<>> THEN @ ELSE data.description,
          !.games           = OrElse(data.games, @),
          !.logo            = IF data.logo = <<>> THEN @ ELSE data.logo,
          !.banner          = IF data.banner = <<>> THEN @ ELSE data.banner,
          !.twitterUrl      = IF links THEN data.twitterUrl ELSE @,
          !.discordUrl      = IF links THEN data.discordUrl ELSE @,
          !.telegramUrl     = IF links THEN data.telegramUrl ELSE @,
          !.websiteUrl      = IF links THEN data.websiteUrl ELSE @,
          !.maxBetAmount    = IF data.maxBetAmount = <<>> THEN @ ELSE data.maxBetAmount,
          !.minBetAmount    = IF data.minBetAmount = <<>> THEN @ ELSE data.minBetAmount,
          !.supportedTokens = OrElse(data.supportedTokens, @),
          !.lastHeartbeat   = IF data.lastHeartbeat = <<>> THEN @ ELSE data.lastHeartbeat,
          !.updatedAt       = now]
UpdatedRow(row, data) ==
    [row EXCEPT
       !.name            = OrElse(data.name, @),
       !.url             = OrElse(data.url, @),
       !.status          = OrElse(data.status, @),
       !.description     = IF data.description = <<>> THEN @ ELSE data.description,
       !.games           = OrElse(data.games, @),
       !.logo            = IF data.logo = <<>> THEN @ ELSE data.logo,
       !.banner          = IF data.banner = <<>> THEN @ ELSE data.banner,
       !.twitterUrl      = IF data.twitterUrl = <<>> THEN @ ELSE data.twitterUrl,
       !.discordUrl      = IF data.discordUrl = <<>> THEN @ ELSE data.discordUrl,
       !.telegramUrl     = IF data.telegramUrl = <<>> THEN @ ELSE data.telegramUrl,
       !.websiteUrl      = IF data.websiteUrl = <<>> THEN @ ELSE data.websiteUrl,
       !.maxBetAmount    = IF data.maxBetAmount = <<>> THEN @ ELSE data.maxBetAmount,
       !.minBetAmount    = IF data.minBetAmount = <<>> THEN @ ELSE data.minBetAmount,
       !.supportedTokens = OrElse(data.supportedTokens, @),
       !.lastHeartbeat   = IF data.lastHeartbeat = <<>> THEN @ ELSE data.lastHeartbeat,
       !.updatedAt       = now]

\* The Casino table after prisma.casino.update({ where: { id }, data })
CasinoTableAfterUpdate(id, data) ==
    [casinos EXCEPT ![id] = UpdatedRow(@, data)]

\* getCasinoById: the formatted row or null
getCasinoByIdOrFirst(id) ==
    IF id \in 1..Len(casinos) THEN Some(formatCasinoResponse(casinos[id]))
    ELSE IF Len(casinos) > 0 THEN Some(formatCasinoResponse(casinos[1]))
    ELSE None
getCasinoById(id) ==
    LET casino == CasinoFindUniqueById(id)
    IN IF casino = <<>> THEN None ELSE Some(formatCasinoResponse(casino[1]))

-----------------------------------------------------------------------------
(* POST /api/casinos/heartbeat *)

\* The signature check of the heartbeat route, against the key on file
HeartbeatSignatureOkAnySigner(body, casino) ==
    verifySolanaSignature(SignedMessage(HeartbeatJson(body)), body.signature,
                          body.signature.signer)
HeartbeatSignatureOkFresh(body, casino) ==
    /\ verifySolanaSignature(SignedMessage(HeartbeatJson(body)),
                             body.signature, casino.publicKey)
    /\ now - body.timestamp < 1 /\ body.timestamp - now < 1
HeartbeatSignatureOk(body, casino) ==
    verifySolanaSignature(SignedMessage(HeartbeatJson(body)), body.signature,
                          casino.publicKey)

\* The row prisma.heartbeat.create inserts for updateHeartbeat's data
NewHeartbeatRowNoMetrics(casino, input) ==
    [id |-> Len(heartbeats) + 1, casinoId |-> casino.id,
     status |-> input.status, activePlayers |-> None, totalBets24h |-> None,
     uptime |-> None, responseTime |-> None, signature |-> input.signature,
     timestamp |-> input.timestamp]
HeartbeatRow(id, casino, input) ==
    LET m == input.metrics
    IN [id            |-> id,
        casinoId      |-> casino.id,
        status        |-> input.status,
        activePlayers |-> IF m = <<>> THEN None ELSE m[1].activePlayers,
        totalBets24h  |-> IF m = <<>> THEN None ELSE m[1].totalBets24h,
        uptime        |-> IF m = <<>> THEN None ELSE m[1].uptime,
        responseTime  |-> IF m = <<>> THEN None ELSE m[1].responseTime,
        signature     |-> input.signature,
        timestamp     |-> input.timestamp]

NewHeartbeatRow(casino, input) ==
    HeartbeatRow(Len(heartbeats) + 1, casino, input)

\* The data of updateHeartbeat's prisma.casino.update
HeartbeatCasinoDataStatusOnly(input) ==
    [NoChange EXCEPT !.status = Some(input.status)]
HeartbeatCasinoDataNoRevival(input) ==
    IF casinos[input.casinoId].status \in {"suspended", "offline"}
    THEN [NoChange EXCEPT !.lastHeartbeat = Some(input.timestamp)]
    ELSE [NoChange EXCEPT !.status = Some(input.status),
                          !.lastHeartbeat = Some(input.timestamp)]
HeartbeatCasinoData(input) ==
    [NoChange EXCEPT !.status = Some(input.status),
                     !.lastHeartbeat = Some(input.timestamp)]

\* The advisory interval updateHeartbeat returns, in seconds
NextHeartbeatIn == 60

\* A heartbeat arrives and is validated (preHandler validateBody)
HeartbeatArrive(raw) ==
    /\ CanArrive
    /\ LET r == NewRequest("heartbeat", raw,
                           IsSome(CasinoFindUniqueById(raw.casinoId)))
       IN IF HeartbeatShapeOk(raw)
          THEN /\ inflight' = inflight \cup {[r EXCEPT !.pc = "getCasinoById"]}
               /\ reply' = NoReply
          ELSE /\ inflight' = inflight
               /\ reply' = Respond(r, 400, "VALIDATION_ERROR",
                                   "Invalid request body", None)
    /\ submitted' = submitted + 1
    /\ UNCHANGED <<casinos, heartbeats, now>>

\* The route: await getCasinoById; 404 when there is none, else the signature
\* is verified against the stored key: 401, or on to updateHeartbeat
HeartbeatGet(r) ==
    /\ r \in inflight /\ r.kind = "heartbeat" /\ r.pc = "getCasinoById"
    /\ LET casino == getCasinoById(r.body.casinoId)
           r1 == Did(r, "casino.findUnique")
           r2 == Did(r1, "verify")
       IN IF casino = <<>>
          THEN /\ inflight' = inflight \ {r}
               /\ reply' = Respond(r1, 404, "CASINO_NOT_FOUND",
                                   "Casino not found", None)
          ELSE IF ~HeartbeatSignatureOk(r.body, casino[1])
          THEN /\ inflight' = inflight \ {r}
               /\ reply' = Respond(r2, 401, "INVALID_SIGNATURE",
                                   "Signature verification failed", None)
          ELSE /\ inflight' = (inflight \ {r}) \cup {[r2 EXCEPT !.pc = "findUnique"]}
               /\ reply' = NoReply
    /\ UNCHANGED <<casinos, heartbeats, now, submitted>>

\* updateHeartbeat: await prisma.casino.findUnique by id; CASINO_NOT_FOUND is
\* thrown when there is none, which the route answers with 404
HeartbeatFindUnique(r) ==
    /\ r \in inflight /\ r.kind = "heartbeat" /\ r.pc = "findUnique"
    /\ LET casino == CasinoFindUniqueById(r.body.casinoId)
           r1 == Did(r, "casino.findUnique")
       IN IF casino = <<>>
          THEN /\ inflight' = inflight \ {r}
               /\ reply' = Respond(r1, 404, "CASINO_NOT_FOUND",
                                   "Casino not found", None)
          ELSE /\ inflight' = (inflight \ {r}) \cup
                      {[r1 EXCEPT !.pc = "heartbeat.create", !.found = casino]}
               /\ reply' = NoReply
    /\ UNCHANGED <<casinos, heartbeats, now, submitted>>

\* updateHeartbeat: await prisma.heartbeat.create
HeartbeatCreateUnlogged(r) ==
    /\ r \in inflight /\ r.kind = "heartbeat" /\ r.pc = "heartbeat.create"
    /\ heartbeats' = heartbeats
    /\ inflight' = (inflight \ {r}) \cup
           {[Did(r, "heartbeat.create") EXCEPT !.pc = "casino.update"]}
    /\ reply' = NoReply
    /\ UNCHANGED <<casinos, now, submitted>>
HeartbeatCreate(r) ==
    /\ r \in inflight /\ r.kind = "heartbeat" /\ r.pc = "heartbeat.create"
    /\ heartbeats' = Append(heartbeats, NewHeartbeatRow(r.found[1], r.body))
    /\ inflight' = (inflight \ {r}) \cup
           {[Did(r, "heartbeat.create") EXCEPT !.pc = "casino.update"]}
    /\ reply' = NoReply
    /\ UNCHANGED <<casinos, now, submitted>>

\* updateHeartbeat: await prisma.casino.update, then the acknowledgement
HeartbeatCasinoUpdate(r) ==
    /\ r \in inflight /\ r.kind = "heartbeat" /\ r.pc = "casino.update"
    /\ casinos' = CasinoTableAfterUpdate(r.found[1].id, HeartbeatCasinoData(r.body))
    /\ inflight' = inflight \ {r}
    /\ reply' = Respond(Did(r, "casino.update"), 200, "OK", "",
                        Some([success |-> TRUE, timestamp |-> now,
                              nextHeartbeatIn |-> NextHeartbeatIn]))
    /\ UNCHANGED <<heartbeats, now, submitted>>

-----------------------------------------------------------------------------
(* PATCH /api/casinos *)

\* The signature check of the update route, against the key on file
UpdateSignatureOkAnySigner(body, casino) ==
    verifySolanaSignature(SignedMessage(UpdateJson(body)), body.signature,
                          body.signature.signer)
UpdateSignatureOk(body, casino) ==
    verifySolanaSignature(SignedMessage(UpdateJson(body)), body.signature,
                          casino.publicKey)

NoMetadata ==
    [description |-> None, games |-> None, logo |-> None, banner |-> None,
     socialLinks |-> None, maxBetAmount |-> None, minBetAmount |-> None,
     supportedTokens |-> None]
NoLinks ==
    [twitter |-> None, discord |-> None, telegram |-> None, website |-> None]

\* updateCasino's updateData: a column is named when the input field is not
\* undefined
UpdateDataCountingAsSeen(input) ==
    LET m == OrElse(input.metadata, NoMetadata)
        l == OrElse(m.socialLinks, NoLinks)
    IN [name            |-> input.name,
        url             |-> input.url,
        status          |-> input.status,
        description     |-> m.description,
        games           |-> m.games,
        logo            |-> m.logo,
        banner          |-> m.banner,
        twitterUrl      |-> l.twitter,
        discordUrl      |-> l.discord,
        telegramUrl     |-> l.telegram,
        websiteUrl      |-> l.website,
        maxBetAmount    |-> m.maxBetAmount,
        minBetAmount    |-> m.minBetAmount,
        supportedTokens |-> m.supportedTokens,
        lastHeartbeat   |-> IF input.status = <<>> THEN None ELSE Some(now)]
UpdateData(input) ==
    LET m == OrElse(input.metadata, NoMetadata)
        l == OrElse(m.socialLinks, NoLinks)
    IN [name            |-> input.name,
        url             |-> input.url,
        status          |-> input.status,
        description     |-> m.description,
        games           |-> m.games,
        logo            |-> m.logo,
        banner          |-> m.banner,
        twitterUrl      |-> l.twitter,
        discordUrl      |-> l.discord,
        telegramUrl     |-> l.telegram,
        websiteUrl      |-> l.website,
        maxBetAmount    |-> m.maxBetAmount,
        minBetAmount    |-> m.minBetAmount,
        supportedTokens |-> m.supportedTokens,
        lastHeartbeat   |-> None]

\* An update arrives and is validated (preHandler validateBody)
UpdateArrive(raw) ==
    /\ CanArrive
    /\ LET r == NewRequest("update", raw,
                           IsSome(CasinoFindUniqueById(raw.casinoId)))
       IN IF UpdateShapeOk(raw)
          THEN /\ inflight' = inflight \cup {[r EXCEPT !.pc = "getCasinoById"]}
               /\ reply' = NoReply
          ELSE /\ inflight' = inflight
               /\ reply' = Respond(r, 400, "VALIDATION_ERROR",
                                   "Invalid request body", None)
    /\ submitted' = submitted + 1
    /\ UNCHANGED <<casinos, heartbeats, now>>

\* The route: await getCasinoById; 404 when there is none, else the signature
\* is verified against the stored key: 401, or on to updateCasino
UpdateGet(r) ==
    /\ r \in inflight /\ r.kind = "update" /\ r.pc = "getCasinoById"
    /\ LET casino == getCasinoById(r.body.casinoId)
           r1 == Did(r, "casino.findUnique")
           r2 == Did(r1, "verify")
       IN IF casino = <<>>
          THEN /\ inflight' = inflight \ {r}
               /\ reply' = Respond(r1, 404, "CASINO_NOT_FOUND",
                                   "Casino not found", None)
          ELSE IF ~UpdateSignatureOk(r.body, casino[1])
          THEN /\ inflight' = inflight \ {r}
               /\ reply' = Respond(r2, 401, "INVALID_SIGNATURE",
                                   "Signature verification failed", None)
          ELSE /\ inflight' = (inflight \ {r}) \cup {[r2 EXCEPT !.pc = "findUnique"]}
               /\ reply' = NoReply
    /\ UNCHANGED <<casinos, heartbeats, now, submitted>>

\* updateCasino: await prisma.casino.findUnique by id
UpdateFindUnique(r) ==
    /\ r \in inflight /\ r.kind = "update" /\ r.pc = "findUnique"
    /\ LET casino == CasinoFindUniqueById(r.body.casinoId)
           r1 == Did(r, "casino.findUnique")
       IN IF casino = <<>>
          THEN /\ inflight' = inflight \ {r}
               /\ reply' = Respond(r1, 404, "CASINO_NOT_FOUND",
                                   "Casino not found", None)
          ELSE /\ inflight' = (inflight \ {r}) \cup
                      {[r1 EXCEPT !.pc = "casino.update", !.found = casino]}
               /\ reply' = NoReply
    /\ UNCHANGED <<casinos, heartbeats, now, submitted>>

\* updateCasino: await prisma.casino.update with updateData, then the
\* formatted row
UpdateWriteWholeRow(r) ==
    /\ r \in inflight /\ r.kind = "update" /\ r.pc = "casino.update"
    /\ casinos' = [casinos EXCEPT ![r.found[1].id] =
                       UpdatedRow(r.found[1], UpdateData(r.body))]
    /\ inflight' = inflight \ {r}
    /\ reply' = Respond(Did(r, "casino.update"), 200, "OK", "",
                        Some(formatCasinoResponse(casinos'[r.found[1].id])))
    /\ UNCHANGED <<heartbeats, now, submitted>>
UpdateWrite(r) ==
    /\ r \in inflight /\ r.kind = "update" /\ r.pc = "casino.update"
    /\ casinos' = CasinoTableAfterUpdate(r.found[1].id, UpdateData(r.body))
    /\ inflight' = inflight \ {r}
    /\ reply' = Respond(Did(r, "casino.update"), 200, "OK", "",
                        Some(formatCasinoResponse(casinos'[r.found[1].id])))
    /\ UNCHANGED <<heartbeats, now, submitted>>

-----------------------------------------------------------------------------
(* The inactivity sweep and the clock *)

\* markInactiveCasinos's where clause: lastHeartbeat < cutoff (never true of
\* NULL) and status is not offline
IsInactiveCountingOffline(row, cutoff) ==
    row.lastHeartbeat # <<>> /\ row.lastHeartbeat[1] < cutoff
IsInactiveOnlineOnly(row, cutoff) ==
    /\ row.lastHeartbeat # <<>>
    /\ row.lastHeartbeat[1] < cutoff
    /\ row.status = "online"
IsInactiveSinceCreation(row, cutoff) ==
    /\ \/ row.lastHeartbeat # <<>> /\ row.lastHeartbeat[1] < cutoff
       \/ row.lastHeartbeat = <<>> /\ row.createdAt < cutoff
    /\ row.status # "offline"
IsInactiveAtTheCutoff(row, cutoff) ==
    /\ row.lastHeartbeat # <<>>
    /\ row.lastHeartbeat[1] <= cutoff
    /\ row.status # "offline"
IsInactive(row, cutoff) ==
    /\ row.lastHeartbeat # <<>>
    /\ row.lastHeartbeat[1] < cutoff
    /\ row.status # "offline"

\* markInactiveCasinos(timeoutMinutes): one prisma.casino.updateMany; the
\* count it returns is logged
SweepPurging ==
    /\ LET cutoff == now - HEARTBEAT_TIMEOUT
           hit == {i \in 1..Len(casinos) : IsInactive(casinos[i], cutoff)}
       IN /\ casinos' = [i \in 1..Len(casinos) |->
                           IF i \in hit
                           THEN [casinos[i] EXCEPT !.status = "offline",
                                                   !.updatedAt = now]
                           ELSE casinos[i]]
          /\ heartbeats' = SelectSeq(heartbeats,
                                     LAMBDA h : h.timestamp >= cutoff)
          /\ reply' = [kind |-> "sweep", count |-> Cardinality(hit)]
    /\ inflight' = inflight
    /\ UNCHANGED <<now, submitted>>
Sweep ==
    /\ LET cutoff == now - HEARTBEAT_TIMEOUT
           hit == {i \in 1..Len(casinos) : IsInactive(casinos[i], cutoff)}
       IN /\ casinos' = [i \in 1..Len(casinos) |->
                           IF i \in hit
                           THEN [casinos[i] EXCEPT !.status = "offline",
                                                   !.updatedAt = now]
                           ELSE casinos[i]]
          /\ reply' = [kind |-> "sweep", count |-> Cardinality(hit)]
    /\ inflight' = inflight
    /\ UNCHANGED <<heartbeats, now, submitted>>

\* The inactivity check as the timer runs it: markInactiveCasinos reads the
\* clock for its cutoff, then awaits one prisma.casino.updateMany, which the
\* store runs as one statement while other handlers go on
SweepBegin ==
    /\ \A r \in inflight : r.kind # "sweep"
    /\ inflight' = inflight \cup
          {[NewRequest("sweep", [cutoff |-> now - HEARTBEAT_TIMEOUT], FALSE)
              EXCEPT !.pc = "updateMany"]}
    /\ reply' = NoReply
    /\ UNCHANGED <<casinos, heartbeats, now, submitted>>

SweepUpdateMany(r) ==
    /\ r \in inflight /\ r.kind = "sweep" /\ r.pc = "updateMany"
    /\ LET hit == {i \in 1..Len(casinos) :
                      IsInactive(casinos[i], r.body.cutoff)}
       IN /\ casinos' = [i \in 1..Len(casinos) |->
                           IF i \in hit
                           THEN [casinos[i] EXCEPT !.status = "offline",
                                                   !.updatedAt = now]
                           ELSE casinos[i]]
          /\ reply' = [kind |-> "sweep", count |-> Cardinality(hit),
                       req |-> r]
    /\ inflight' = inflight \ {r}
    /\ UNCHANGED <<heartbeats, now, submitted>>

\* Time passes, up to a last instant
TickTo(limit) ==
    /\ now < limit
    /\ now' = now + 1
    /\ reply' = NoReply
    /\ UNCHANGED <<casinos, heartbeats, inflight, submitted>>

Tick == TickTo(MaxTime)
\* The clock of the specifications that follow a heartbeat until it is stale
TickLive == TickTo(MaxClock)


-----------------------------------------------------------------------------
(* GET /api/casinos, /:id, /by-key/:publicKey and /stats *)

\* CasinoFiltersSchema.parse succeeds. games is one tag or an array of tags;
\* limit and offset are coerced to numbers.
CasinoFiltersOk(raw) ==
    /\ OptOk(raw.status, CasinoStatuses)
    /\ \/ raw.games = <<>>
       \/ /\ AllIn(raw.games[1].tags, GameTypes)
          /\ raw.games[1].array \/ Len(raw.games[1].tags) = 1
    /\ (raw.limit = <<>> \/ (raw.limit[1] > 0 /\ raw.limit[1] <= 100))
    /\ OptNonNegative(raw.offset)

\* What CasinoFiltersSchema.parse returns: a single tag becomes an array,
\* limit defaults to 20 and offset to 0
CasinoFiltersParse(raw) ==
    [status |-> raw.status,
     games  |-> IF raw.games = <<>> THEN None ELSE Some(raw.games[1].tags),
     limit  |-> OrElse(raw.limit, 20),
     offset |-> OrElse(raw.offset, 0)]

\* games: { hasSome: filters.games }
GamesHasEvery(games, tags) ==
    \A j \in 1..Len(tags) : \E i \in 1..Len(games) : games[i] = tags[j]
GamesHasSome(games, tags) ==
    \E i \in 1..Len(games) : \E j \in 1..Len(tags) : games[i] = tags[j]

\* getCasinos's where: the status when one is given, the games when a
\* non-empty list is given
CasinoWhere(row, filters) ==
    /\ filters.status = <<>> \/ row.status = filters.status[1]
    /\ \/ filters.games = <<>>
       \/ Len(filters.games[1]) = 0
       \/ GamesHasSome(row.games, filters.games[1])

WhereIds(filters) ==
    {i \in 1..Len(casinos) : CasinoWhere(casinos[i], filters)}

\* orderBy: { lastHeartbeat: 'desc' } is ORDER BY "lastHeartbeat" DESC, for
\* which PostgreSQL puts NULLs first; row a may stand before row b
LastHeartbeatDesc(a, b) ==
    \/ a.lastHeartbeat = <<>>
    \/ b.lastHeartbeat # <<>> /\ a.lastHeartbeat[1] >= b.lastHeartbeat[1]

\* The orders in which the store may return the matching rows: rows with
\* equal lastHeartbeat come in any order, which may differ from one query to
\* the next
FindManyOrders(filters) ==
    LET ids == WhereIds(filters)
        n   == Cardinality(ids)
    IN {s \in [1..n -> ids] :
          /\ \A i, j \in 1..n : i # j => s[i] # s[j]
          /\ \A i, j \in 1..n :
                i < j => LastHeartbeatDesc(casinos[s[i]], casinos[s[j]])}

\* skip: filters.offset, take: filters.limit, each row formatted
FindManyPage(order, filters) ==
    LET last == IF filters.offset + filters.limit < Len(order)
                THEN filters.offset + filters.limit ELSE Len(order)
    IN [k \in 1..(IF last > filters.offset THEN last - filters.offset ELSE 0)
          |-> formatCasinoResponse(casinos[order[filters.offset + k]])]

\* getCasinoByPublicKey: the formatted row or null
getCasinoByPublicKeyOrFirst(publicKey) ==
    IF Len(casinos) > 0 THEN Some(formatCasinoResponse(casinos[1])) ELSE None
getCasinoByPublicKey(publicKey) ==
    LET casino == CasinoFindUniqueByKey(publicKey)
    IN IF casino = <<>> THEN None ELSE Some(formatCasinoResponse(casino[1]))

\* A list request arrives and is validated (preHandler validateQuery)
ListArrive(raw) ==
    /\ CanArrive
    /\ LET r == NewRequest("list", raw, FALSE)
       IN IF CasinoFiltersOk(raw)
          THEN /\ inflight' = inflight \cup
                    {[r EXCEPT !.body = CasinoFiltersParse(raw),
                               !.pc = "getCasinos"]}
               /\ reply' = NoReply
          ELSE /\ inflight' = inflight
               /\ reply' = Respond(r, 400, "VALIDATION_ERROR",
                                   "Invalid query parameters", None)
    /\ submitted' = submitted + 1
    /\ UNCHANGED <<casinos, heartbeats, now>>

\* getCasinos awaits Promise.all([findMany, count]): two queries that the
\* store runs one by one, in either order; res holds what has come back
NoListResult == [page |-> None, total |-> None]

ListResolve(r, res, op) ==
    LET r1 == [Did(r, op) EXCEPT !.found = Some(res)]
    IN IF res.page # <<>> /\ res.total # <<>>
       THEN /\ inflight' = inflight \ {r}
            /\ reply' = Respond(r1, 200, "OK", "",
                                Some([casinos |-> res.page[1],
                                      total   |-> res.total[1],
                                      limit   |-> r.body.limit,
                                      offset  |-> r.body.offset]))
       ELSE /\ inflight' = (inflight \ {r}) \cup {r1}
            /\ reply' = NoReply

\* prisma.casino.findMany({ where, skip, take, orderBy })
ListFindMany(r) ==
    /\ r \in inflight /\ r.kind = "list" /\ r.pc = "getCasinos"
    /\ OrElse(r.found, NoListResult).page = <<>>
    /\ \E order \in FindManyOrders(r.body) :
          ListResolve(r, [OrElse(r.found, NoListResult) EXCEPT
                            !.page = Some(FindManyPage(order, r.body))],
                      "casino.findMany")
    /\ UNCHANGED <<casinos, heartbeats, now, submitted>>

\* prisma.casino.count({ where })
ListCount(r) ==
    /\ r \in inflight /\ r.kind = "list" /\ r.pc = "getCasinos"
    /\ OrElse(r.found, NoListResult).total = <<>>
    /\ ListResolve(r, [OrElse(r.found, NoListResult) EXCEPT
                         !.total = Some(Cardinality(WhereIds(r.body)))],
                   "casino.count")
    /\ UNCHANGED <<casinos, heartbeats, now, submitted>>

\* GET /:id or GET /by-key/:publicKey arrives; the handler awaits the lookup
LookupArrive(kind, params) ==
    /\ CanArrive
    /\ inflight' = inflight \cup
          {[NewRequest(kind, params, FALSE) EXCEPT !.pc = "findUnique"]}
    /\ reply' = NoReply
    /\ submitted' = submitted + 1
    /\ UNCHANGED <<casinos, heartbeats, now>>

\* The answer of both lookup routes: 404 when the service returns null
LookupAnswer(r, casino) ==
    /\ inflight' = inflight \ {r}
    /\ reply' = IF casino = <<>>
                THEN Respond(Did(r, "casino.findUnique"), 404,
                             "CASINO_NOT_FOUND", "Casino not found", None)
                ELSE Respond(Did(r, "casino.findUnique"), 200, "OK", "",
                             casino)
    /\ UNCHANGED <<casinos, heartbeats, now, submitted>>

GetById(r) ==
    /\ r \in inflight /\ r.kind = "byId" /\ r.pc = "findUnique"
    /\ LookupAnswer(r, getCasinoById(r.body.id))

GetByKey(r) ==
    /\ r \in inflight /\ r.kind = "byKey" /\ r.pc = "findUnique"
    /\ LookupAnswer(r, getCasinoByPublicKey(r.body.publicKey))

\* The trailing 24 hours of getStatistics, in units of the clock
DAY == 2

\* GET /stats arrives; the handler awaits getStatistics
StatsArrive ==
    /\ CanArrive
    /\ inflight' = inflight \cup
          {[NewRequest("stats", [route |-> "/stats"], FALSE) EXCEPT
              !.pc = "getStatistics"]}
    /\ reply' = NoReply
    /\ submitted' = submitted + 1
    /\ UNCHANGED <<casinos, heartbeats, now>>

\* The three counts of getStatistics
StatNames == {"totalCasinos", "onlineCasinos", "heartbeatsLast24h"}

NoStats ==
    [totalCasinos |-> None, onlineCasinos |-> None, heartbeatsLast24h |-> None]

StatsCountOf(name) ==
    CASE name = "totalCasinos" -> Len(casinos)
      [] name = "onlineCasinos" ->
            Cardinality({i \in 1..Len(casinos) : casinos[i].status = "online"})
      [] name = "heartbeatsLast24h" ->
            Cardinality({i \in 1..Len(heartbeats) :
                            heartbeats[i].timestamp >= now - DAY})

\* getStatistics awaits Promise.all of three counts, which the store runs
\* one by one in any order; the answer is sent when the last has come back
StatsCount(r, name) ==
    /\ r \in inflight /\ r.kind = "stats" /\ r.pc = "getStatistics"
    /\ OrElse(r.found, NoStats)[name] = <<>>
    /\ LET res == [OrElse(r.found, NoStats) EXCEPT
                      ![name] = Some(StatsCountOf(name))]
           op  == IF name = "heartbeatsLast24h" THEN "heartbeat.count"
                  ELSE "casino.count"
           r1  == [Did(r, op) EXCEPT !.found = Some(res)]
       IN IF \A k \in StatNames : res[k] # <<>>
          THEN /\ inflight' = inflight \ {r}
               /\ reply' = Respond(r1, 200, "OK", "",
                              Some([k \in StatNames |-> res[k][1]]))
          ELSE /\ inflight' = (inflight \ {r}) \cup {r1}
               /\ reply' = NoReply
    /\ UNCHANGED <<casinos, heartbeats, now, submitted>>

-----------------------------------------------------------------------------
(* The requests the clients send *)

K1 == "K1AAAAAAAAAAAAAAAAAAAAAAAAAAAAAA"
K2 == "K2BBBBBBBBBBBBBBBBBBBBBBBBBBBBBB"
K3 == "K3CCCCCCCCCCCCCCCCCCCCCCCCCCCCCC"
\* The key pairs that sign the write requests of the model
Signers == {K1, K2}

MetaA ==
    [description |-> Some("first"), games |-> Some(<<"slots", "dice">>),
     logo |-> Some("https://a.example"), banner |-> None,
     socialLinks |-> Some([twitter |-> Some("https://a.example"),
                           discord |-> None, telegram |-> None,
                           website |-> Some("https://b.example")]),
     maxBetAmount |-> Some(100), minBetAmount |-> Some(1),
     supportedTokens |-> Some(<<"SOL", "USDC">>)]
MetaB == [NoMetadata EXCEPT !.description = Some("second")]
MetaBadGame == [NoMetadata EXCEPT !.games = Some(<<"poker">>)]
MetaNoText == [NoMetadata EXCEPT !.description = Some("")]

Registration(name, publicKey, metadata) ==
    [name |-> name, url |-> "https://a.example", publicKey |-> publicKey,
     metadata |-> metadata, signature |-> EmptySignature]

\* What a client signs: createSignatureMessage(data) of the data it sends,
\* the same JSON.stringify(data, Object.keys(data).sort()) as the server's
RegistrationMessage(data) == SignedMessage(RegistrationJson(data))
HeartbeatMessage(data) == SignedMessage(HeartbeatJson(data))
UpdateMessage(data) == SignedMessage(UpdateJson(data))

Signed(data, signature) == [data EXCEPT !.signature = signature]

\* Registrations: well-formed ones that differ in one top-level field or in
\* the metadata only, one with a malformed key, two of a wrong shape, one
\* whose description is the empty string
RegistrationPayloads ==
    { Registration("Ace", K1, MetaA), Registration("Ace", K1, MetaB),
      Registration("Bet", K1, MetaA), Registration("Ace", K2, MetaA),
      Registration("Ace", MalformedKey, MetaA),
      Registration("", K1, MetaA), Registration("Ace", K2, MetaBadGame),
      Registration("Ace", K2, MetaNoText) }

\* The signatures a registration may carry: made by either key pair over the
\* data sent or over other registration data, undecodable, or empty
RegistrationSignatures(data) ==
    { Sign(k, RegistrationMessage(data)) : k \in Signers }
    \cup { Sign(data.publicKey, RegistrationMessage(d)) :
             d \in { Registration("Ace", K1, MetaA),
                     Registration("Bet", K1, MetaA) } }
    \cup { GarbageSignature, EmptySignature }

RegistrationRequests ==
    UNION { { Signed(d, sig) : sig \in RegistrationSignatures(d) } :
            d \in RegistrationPayloads }


Metrics1 ==
    Some([activePlayers |-> Some(7), totalBets24h |-> None,
          uptime |-> Some(3600), responseTime |-> Some(50)])

Heartbeat(casinoId, status, timestamp, metrics) ==
    [casinoId |-> casinoId, status |-> status, timestamp |-> timestamp,
     metrics |-> metrics, signature |-> EmptySignature]

\* An id no casino has
UnknownId == Len(casinos) + 1

\* Heartbeats for casino 1, with and without metrics, and for an id that no
\* casino has; one of a wrong shape (an unknown status)
HeartbeatPayloads ==
    { Heartbeat(1, "maintenance", now, Metrics1),
      Heartbeat(1, "offline", now, None),
      Heartbeat(UnknownId, "maintenance", now, Metrics1),
      Heartbeat(1, "asleep", now, None) }

\* The signatures a heartbeat may carry: made by either key pair over the
\* data sent, by the first key pair over other data, undecodable, or empty
HeartbeatSignatures(data) ==
    LET message == HeartbeatMessage(data)
    IN { Sign(k, message) : k \in Signers }
       \cup { Sign(K1, HeartbeatMessage([data EXCEPT !.status = "online"])),
              GarbageSignature, EmptySignature }

HeartbeatRequests ==
    UNION { { Signed(d, sig) : sig \in HeartbeatSignatures(d) } :
            d \in HeartbeatPayloads }

Update(casinoId, name, status, metadata) ==
    [casinoId |-> casinoId, name |-> name, url |-> None, status |-> status,
     metadata |-> metadata, signature |-> EmptySignature]

\* Updates of a top-level field and of a metadata field of casino 1, one for
\* an id that no casino has, one of a wrong shape (an empty name)
UpdatePayloads ==
    { Update(1, Some("Neo"), None, None),
      Update(1, None, None, Some(MetaB)),
      Update(UnknownId, Some("Neo"), None, None),
      Update(1, Some(""), None, None) }

UpdateSignatures(data) ==
    LET message == UpdateMessage(data)
    IN { Sign(k, message) : k \in Signers }
       \cup { Sign(K1, UpdateMessage([data EXCEPT !.name = Some("Old")])),
              GarbageSignature, EmptySignature }

UpdateRequests ==
    UNION { { Signed(d, sig) : sig \in UpdateSignatures(d) } :
            d \in UpdatePayloads }

\* The requests of clients that sign what they send with their own key
HonestRegistrations ==
    { Signed(d, Sign(d.publicKey, RegistrationMessage(d))) :
        d \in { Registration("Ace", K1, MetaA), Registration("Bet", K2, MetaB) } }

OwnerSigned(data, message) ==
    Signed(data, IF data.casinoId \in 1..Len(casinos)
                 THEN Sign(casinos[data.casinoId].publicKey, message)
                 ELSE Sign(K1, message))

HonestHeartbeats ==
    { OwnerSigned(d, HeartbeatMessage(d)) :
        d \in UNION { { Heartbeat(id, "maintenance", now, Metrics1),
                        Heartbeat(id, "offline", now, None) } :
                      id \in 1..Len(casinos) } }

HonestUpdates ==
    { OwnerSigned(d, UpdateMessage(d)) :
        d \in { Update(id, None, Some("suspended"), None) :
                  id \in 1..Len(casinos) } }

\* The timestamps a client may put in a heartbeat: its own clock's reading,
\* which may be behind or ahead of the server's
ClientTimes == 1..MaxClock

LinksOnly ==
    [NoMetadata EXCEPT !.socialLinks =
        Some([NoLinks EXCEPT !.discord = Some("https://b.example")])]

\* Heartbeats signed by the owner of the casino they name, carrying any
\* client timestamp, and one for casino 1 signed by the owner of casino 2
LiveHeartbeats ==
    { OwnerSigned(d, HeartbeatMessage(d)) :
        d \in { Heartbeat(id, "maintenance", t, None) :
                  id \in 1..Len(casinos), t \in ClientTimes }
              \cup { Heartbeat(1, "offline", now, None) } }
    \cup { Signed(d, Sign(K2, HeartbeatMessage(d))) :
             d \in { Heartbeat(1, "suspended", now, None) } }

\* Updates of casino 1 signed by its owner, of the status or of the name and
\* one social link, and a status update signed by the owner of casino 2
LiveUpdates ==
    { OwnerSigned(d, UpdateMessage(d)) :
        d \in { Update(1, None, Some("suspended"), None),
                Update(1, Some("Neo"), None, Some(LinksOnly)) } }
    \cup { Signed(d, Sign(K2, UpdateMessage(d))) :
             d \in { Update(1, None, Some("maintenance"), None) } }

\* Heartbeats signed by the owner of the casino they name: three of casino 1
\* that differ in status and in timestamp, one of casino 2
OwnerHeartbeats ==
    { OwnerSigned(d, HeartbeatMessage(d)) :
        d \in { Heartbeat(1, "maintenance", 1, None),
                Heartbeat(1, "suspended", 2, None),
                Heartbeat(1, "online", 3, Metrics1),
                Heartbeat(2, "maintenance", 1, None) } }

\* Heartbeats of casino 1 that claim each of the four statuses, signed by its
\* owner, and one signed by the owner of casino 2
StatusHeartbeats ==
    { OwnerSigned(d, HeartbeatMessage(d)) :
        d \in { Heartbeat(1, s, now, None) : s \in CasinoStatuses } }
    \cup { Signed(d, Sign(K2, HeartbeatMessage(d))) :
             d \in { Heartbeat(1, "online", now, None) } }

\* Write requests that fail their schema: a registration without a name and
\* one with an unknown game tag, for registered keys; heartbeats with an
\* unknown status for casino 1 and for an id that no casino has; updates
\* with an unknown status and with an unknown game tag. Each is sent signed
\* by the owner, signed by the other key pair, and with an undecodable
\* signature.
MalformedRegistrations ==
    UNION { { Signed(d, Sign(k, RegistrationMessage(d))) : k \in Signers }
            \cup { Signed(d, GarbageSignature) } :
            d \in { Registration("", K1, MetaA),
                    Registration("Ace", K2, MetaBadGame) } }

MalformedHeartbeats ==
    UNION { { Signed(d, Sign(k, HeartbeatMessage(d))) : k \in Signers }
            \cup { Signed(d, GarbageSignature) } :
            d \in { Heartbeat(1, "asleep", now, None),
                    Heartbeat(UnknownId, "asleep", now, None) } }

MalformedUpdates ==
    UNION { { Signed(d, Sign(k, UpdateMessage(d))) : k \in Signers }
            \cup { Signed(d, GarbageSignature) } :
            d \in { Update(1, None, Some("asleep"), None),
                    Update(UnknownId, None, Some("asleep"), None),
                    Update(1, None, None, Some(MetaBadGame)) } }

MetaDice == [NoMetadata EXCEPT !.games = Some(<<"dice", "crash">>)]
MetaSlots == [NoMetadata EXCEPT !.games = Some(<<"slots">>)]

\* A query string of GET /api/casinos
Query(status, games, limit, offset) ==
    [status |-> status, games |-> games, limit |-> limit, offset |-> offset]

OneGame(tag) == Some([array |-> FALSE, tags |-> <<tag>>])
Games(tags) == Some([array |-> TRUE, tags |-> tags])

\* List queries: without a filter, by status, by one game and by several,
\* by status and game, pages of one and of two, and two that fail the schema
ListQueries ==
    { Query(None, None, None, None),
      Query(Some("online"), None, None, None),
      Query(Some("offline"), None, None, None),
      Query(None, OneGame("slots"), None, None),
      Query(None, Games(<<"roulette", "dice">>), None, None),
      Query(Some("online"), OneGame("dice"), None, None),
      Query(None, None, Some(0), None),
      Query(Some("asleep"), None, None, None) }
    \cup { Query(None, None, Some(1), Some(k)) : k \in 0..2 }
    \cup { Query(None, None, Some(2), Some(k)) : k \in {0, 2} }

\* Lookups of every registered id and key, of an id and a key that are not
\* registered, and of a string that is no id
LookupIds == 0..(Len(casinos) + 1)
LookupKeys == WellFormedKeys \cup {MalformedKey}

\* Heartbeats signed by the owner of the casino they name whose timestamp is
\* the client's clock: behind the server's by more than a day, or equal to it
StatsHeartbeats ==
    { OwnerSigned(d, HeartbeatMessage(d)) :
        d \in { Heartbeat(1, "maintenance", 1, None),
                Heartbeat(1, "online", now, None),
                Heartbeat(2, "offline", now, None) } }

\* Heartbeats of casino 1 signed by its owner, claiming maintenance or
\* suspended with any client timestamp
RaceHeartbeats ==
    { OwnerSigned(d, HeartbeatMessage(d)) :
        d \in { Heartbeat(1, s, t, None) :
                  s \in {"maintenance", "suspended"}, t \in ClientTimes } }

\* Updates of casino 1 signed by its owner: of the name; of the status and
\* one social link; of the description; and a second one of the name with
\* the description
PatchPayloads ==
    { Update(1, Some("Neo"), None, None),
      Update(1, None, Some("maintenance"), Some(LinksOnly)),
      Update(1, None, None, Some(MetaB)),
      Update(1, Some("Zed"), None, Some(MetaNoText)) }

PatchUpdates == { OwnerSigned(d, UpdateMessage(d)) : d \in PatchPayloads }

\* Requests of the three write protocols signed by the owner, as a listener
\* captures them: the registration of a third casino, heartbeats and updates
\* of casino 1
CapturedRegistrations ==
    { Signed(d, Sign(d.publicKey, RegistrationMessage(d))) :
        d \in { Registration("Cat", K3, MetaSlots) } }

CapturedHeartbeats ==
    { Signed(d, Sign(K1, HeartbeatMessage(d))) :
        d \in { Heartbeat(1, s, 1, m) :
                  s \in {"maintenance", "suspended"}, m \in {None, Metrics1} } }

CapturedUpdates ==
    { Signed(d, Sign(K1, UpdateMessage(d))) :
        d \in { Update(1, None, Some("suspended"), None),
                Update(1, Some("Neo"), None, None),
                [Update(1, Some("Cat"), None, Some(MetaSlots))
                   EXCEPT !.url = Some("https://a.example")] } }

\* A captured request sent to another endpoint. The endpoint's schema keeps
\* the properties it knows and drops the others (z.object strips unknown
\* keys); a required property the body lacks is the empty string, no url,
\* or 0 here, which the schema refuses as it refuses the absent one. The
\* sender may also fill in what is missing, leaving the signature as it is.
HeartbeatAsUpdate(h) ==
    Signed(Update(h.casinoId, None, Some(h.status), None), h.signature)

UpdateAsHeartbeat(u, timestamp) ==
    Signed(Heartbeat(u.casinoId, OrElse(u.status, ""), timestamp, None),
           u.signature)

RegistrationAsUpdate(g, casinoId) ==
    Signed([Update(casinoId, Some(g.name), None, Some(g.metadata))
              EXCEPT !.url = Some(g.url)], g.signature)

RegistrationAsHeartbeat(g, casinoId) ==
    Signed(Heartbeat(casinoId, "", 0, None), g.signature)

UpdateAsRegistration(u, publicKey) ==
    Signed([Registration(OrElse(u.name, ""), publicKey,
                         OrElse(u.metadata, NoMetadata))
              EXCEPT !.url = OrElse(u.url, NotAUrl)], u.signature)

HeartbeatAsRegistration(h, publicKey) ==
    Signed([Registration("", publicKey, NoMetadata) EXCEPT !.url = NotAUrl],
           h.signature)

\* What arrives at each endpoint: the captured requests of its own protocol,
\* and those of the other two as they are and with the missing properties
\* filled in
SentRegistrations ==
    CapturedRegistrations
    \cup { UpdateAsRegistration(u, k) :
             u \in CapturedUpdates, k \in {"", K1, K3} }
    \cup { HeartbeatAsRegistration(h, "") : h \in CapturedHeartbeats }
    \cup { Signed(Registration("Ace", K1, MetaA), h.signature) :
             h \in CapturedHeartbeats }

SentHeartbeats ==
    CapturedHeartbeats
    \cup { UpdateAsHeartbeat(u, t) : u \in CapturedUpdates, t \in {0, 1} }
    \cup { RegistrationAsHeartbeat(g, id) :
             g \in CapturedRegistrations, id \in {0, 1} }

SentUpdates ==
    CapturedUpdates
    \cup { HeartbeatAsUpdate(h) : h \in CapturedHeartbeats }
    \cup { RegistrationAsUpdate(g, id) :
             g \in CapturedRegistrations, id \in {0, 1} }

\* Updates of casino 1 that carry social links alone, signed by its owner:
\* twitter and telegram (as the integration test sends), twitter only,
\* discord and website, and all four
LinkSets ==
    { [NoLinks EXCEPT !.twitter = Some("https://b.example"),
                      !.telegram = Some("https://b.example")],
      [NoLinks EXCEPT !.twitter = Some("https://b.example")],
      [NoLinks EXCEPT !.discord = Some("https://a.example"),
                      !.website = Some("https://a.example")],
      [twitter |-> Some("https://a.example"),
       discord |-> Some("https://b.example"),
       telegram |-> Some("https://a.example"),
       website |-> Some("https://b.example")] }

LinkUpdates ==
    { OwnerSigned(d, UpdateMessage(d)) :
        d \in { Update(1, None, None,
                       Some([NoMetadata EXCEPT !.socialLinks = Some(l)])) :
                  l \in LinkSets } }

-----------------------------------------------------------------------------
(* Specifications *)

Init ==
    /\ casinos = <<>>
    /\ heartbeats = <<>>
    /\ inflight = {}
    /\ reply = NoReply
    /\ now = 1
    /\ submitted = 0

RegisterSteps ==
    \E r \in inflight : RegisterFindUnique(r) \/ RegisterCreate(r)

HeartbeatSteps ==
    \E r \in inflight :
        \/ HeartbeatGet(r)
        \/ HeartbeatFindUnique(r)
        \/ HeartbeatCreate(r)
        \/ HeartbeatCasinoUpdate(r)

UpdateSteps ==
    \E r \in inflight : UpdateGet(r) \/ UpdateFindUnique(r) \/ UpdateWrite(r)

\* The whole service with clients that sign what they send
Next ==
    \/ \E raw \in HonestRegistrations : RegisterArrive(raw)
    \/ \E raw \in HonestHeartbeats : HeartbeatArrive(raw)
    \/ \E raw \in HonestUpdates : UpdateArrive(raw)
    \/ RegisterSteps
    \/ HeartbeatSteps
    \/ UpdateSteps
    \/ Sweep
    \/ Tick

Spec == Init /\ [][Next]_vars

\* Registration alone, with every kind of registration request
NextRegister ==
    \/ \E raw \in RegistrationRequests : RegisterArrive(raw)
    \/ RegisterSteps

SpecRegister == Init /\ [][NextRegister]_vars

\* Heartbeats and updates with every kind of request, sent to a store that
\* holds the casinos of K1 (id 1) and K2 (id 2) as their registrations left
\* them
InitWrite ==
    /\ casinos = << CasinoRow(1, Registration("Ace", K1, MetaA), 1),
                    CasinoRow(2, Registration("Bet", K2, MetaB), 1) >>
    /\ heartbeats = <<>>
    /\ inflight = {}
    /\ reply = NoReply
    /\ now = 1
    /\ submitted = 0

NextWrite ==
    \/ \E raw \in HeartbeatRequests :
          submitted < MaxWrites /\ HeartbeatArrive(raw)
    \/ \E raw \in UpdateRequests :
          submitted < MaxWrites /\ UpdateArrive(raw)
    \/ HeartbeatSteps
    \/ UpdateSteps

SpecWrite == InitWrite /\ [][NextWrite]_vars

\* The two registered casinos heartbeating and updating while the clock
\* advances and the inactivity check runs
NextLive ==
    \/ \E raw \in LiveHeartbeats :
          submitted < MaxWrites /\ HeartbeatArrive(raw)
    \/ \E raw \in LiveUpdates :
          submitted < MaxWrites /\ UpdateArrive(raw)
    \/ HeartbeatSteps
    \/ UpdateSteps
    \/ Sweep
    \/ TickLive

SpecLive == InitWrite /\ [][NextLive]_vars

\* Heartbeats alone, with the inactivity check on its timer: the timer
\* fires again and again, the clock advances, and a handler that has begun
\* runs to its end
NextSweep ==
    \/ \E raw \in LiveHeartbeats :
          submitted < MaxWrites /\ HeartbeatArrive(raw)
    \/ HeartbeatSteps
    \/ Sweep
    \/ TickLive

\* Owner-signed heartbeats alone, handled concurrently
NextBeats ==
    \/ \E raw \in OwnerHeartbeats : HeartbeatArrive(raw)
    \/ HeartbeatSteps

SpecBeats == InitWrite /\ [][NextBeats]_vars

SpecSweepFair ==
    /\ InitWrite
    /\ [][NextSweep]_vars
    /\ WF_vars(Sweep)
    /\ WF_vars(TickLive)
    /\ WF_vars(HeartbeatSteps)


\* Heartbeats that claim every status, one after or beside the other
NextStatus ==
    \/ \E raw \in StatusHeartbeats :
          submitted < MaxWrites /\ HeartbeatArrive(raw)
    \/ HeartbeatSteps

SpecStatus == InitWrite /\ [][NextStatus]_vars

\* Malformed write requests of every kind, and well-formed heartbeats and
\* updates, sent to the store that holds the casinos of K1 and K2 (a
\* malformed registration ends in its preHandler)
NextShape ==
    \/ \E raw \in MalformedRegistrations :
          submitted < MaxWrites /\ RegisterArrive(raw)
    \/ \E raw \in MalformedHeartbeats \cup HeartbeatRequests :
          submitted < MaxWrites /\ HeartbeatArrive(raw)
    \/ \E raw \in MalformedUpdates \cup UpdateRequests :
          submitted < MaxWrites /\ UpdateArrive(raw)
    \/ HeartbeatSteps
    \/ UpdateSteps

SpecShape == InitWrite /\ [][NextShape]_vars

\* The read routes alone, on a store no one writes to: casino 1 (slots and
\* dice) has sent a heartbeat with timestamp 1, casino 2 (dice and crash) is
\* in maintenance by a heartbeat with timestamp 1 or 2 or has sent none,
\* casino 3 (slots) has sent none
InitRead ==
    /\ now = 2
    /\ \E beats \in {<<>>, <<Heartbeat(2, "maintenance", 1, None)>>,
                     <<Heartbeat(2, "maintenance", 2, None)>>} :
          LET sent == <<Signed(Heartbeat(1, "online", 1, None),
                               Sign(K1, HeartbeatMessage(
                                          Heartbeat(1, "online", 1, None))))>>
                      \o [k \in 1..Len(beats) |->
                            Signed(beats[k],
                                   Sign(K2, HeartbeatMessage(beats[k])))]
              registered ==
                  << CasinoRow(1, Registration("Ace", K1, MetaA), 1),
                     CasinoRow(2, Registration("Bet", K2, MetaDice), 1),
                     CasinoRow(3, Registration("Cat", K3, MetaSlots), 2) >>
          IN /\ heartbeats =
                   [k \in 1..Len(sent) |->
                      HeartbeatRow(k, registered[sent[k].casinoId], sent[k])]
             /\ casinos =
                   [i \in 1..3 |->
                      IF \E k \in 1..Len(sent) : sent[k].casinoId = i
                      THEN UpdatedRow(registered[i],
                               HeartbeatCasinoData(
                                 sent[CHOOSE k \in 1..Len(sent) :
                                        sent[k].casinoId = i]))
                      ELSE registered[i]]
    /\ inflight = {}
    /\ reply = NoReply
    /\ submitted = 0

ListSteps == \E r \in inflight : ListFindMany(r) \/ ListCount(r)

LookupSteps == \E r \in inflight : GetById(r) \/ GetByKey(r)

NextRead ==
    \/ \E raw \in ListQueries : ListArrive(raw)
    \/ \E id \in LookupIds : LookupArrive("byId", [id |-> id])
    \/ \E key \in LookupKeys : LookupArrive("byKey", [publicKey |-> key])
    \/ ListSteps
    \/ LookupSteps

SpecRead == InitRead /\ [][NextRead]_vars

\* Statistics requested while heartbeats are accepted, all within one tick
\* of the server clock, more than a day after the two casinos registered
InitStats ==
    /\ casinos = << CasinoRow(1, Registration("Ace", K1, MetaA), 1),
                    CasinoRow(2, Registration("Bet", K2, MetaB), 1) >>
    /\ heartbeats = <<>>
    /\ inflight = {}
    /\ reply = NoReply
    /\ now = DAY + 2
    /\ submitted = 0

NextStats ==
    \/ \E raw \in StatsHeartbeats : HeartbeatArrive(raw)
    \/ StatsArrive
    \/ HeartbeatSteps
    \/ \E r \in inflight : \E name \in StatNames : StatsCount(r, name)

SpecStats == InitStats /\ [][NextStats]_vars

\* Every operation of the service: a third casino registers while the two
\* registered ones heartbeat and update, the inactivity check runs, the
\* clock advances, and the read routes are called
NextService ==
    \/ submitted < MaxWrites /\
          RegisterArrive(Signed(Registration("Cat", K3, MetaSlots),
                                Sign(K3, RegistrationMessage(
                                    Registration("Cat", K3, MetaSlots)))))
    \/ \E raw \in LiveHeartbeats :
          submitted < MaxWrites /\ HeartbeatArrive(raw)
    \/ \E raw \in LiveUpdates :
          submitted < MaxWrites /\ UpdateArrive(raw)
    \/ submitted < MaxWrites /\ ListArrive(Query(None, None, None, None))
    \/ submitted < MaxWrites /\ LookupArrive("byId", [id |-> 1])
    \/ submitted < MaxWrites /\ LookupArrive("byKey", [publicKey |-> K2])
    \/ submitted < MaxWrites /\ StatsArrive
    \/ RegisterSteps
    \/ HeartbeatSteps
    \/ UpdateSteps
    \/ ListSteps
    \/ LookupSteps
    \/ \E r \in inflight : \E name \in StatNames : StatsCount(r, name)
    \/ Sweep
    \/ TickLive

SpecService == InitWrite /\ [][NextService]_vars

\* Heartbeats of casino 1 handled while the inactivity check is under way
NextRace ==
    \/ \E raw \in RaceHeartbeats :
          submitted < MaxWrites /\ HeartbeatArrive(raw)
    \/ HeartbeatSteps
    \/ SweepBegin
    \/ \E r \in inflight : SweepUpdateMany(r)
    \/ TickLive

SpecRace == InitWrite /\ [][NextRace]_vars

\* Owner-signed updates of one casino, handled concurrently
NextPatch ==
    \/ \E raw \in PatchUpdates : UpdateArrive(raw)
    \/ UpdateSteps

SpecPatch == InitWrite /\ [][NextPatch]_vars

\* Signed requests sent to every write endpoint, the one they were signed
\* for and the two others
NextCross ==
    \/ \E raw \in SentRegistrations :
          submitted < MaxWrites /\ RegisterArrive(raw)
    \/ \E raw \in SentHeartbeats :
          submitted < MaxWrites /\ HeartbeatArrive(raw)
    \/ \E raw \in SentUpdates :
          submitted < MaxWrites /\ UpdateArrive(raw)
    \/ RegisterSteps
    \/ HeartbeatSteps
    \/ UpdateSteps

SpecCross == InitWrite /\ [][NextCross]_vars

\* Owner-signed updates of the social links of one casino
NextLinks ==
    \/ \E raw \in LinkUpdates : UpdateArrive(raw)
    \/ UpdateSteps

SpecLinks == InitWrite /\ [][NextLinks]_vars

-----------------------------------------------------------------------------
(* What the claims are stated in *)

RegisterReply == reply.kind = "register"
WriteReply == reply.kind \in {"heartbeat", "update"}
Accepted == reply.code = "OK"

\* The store and crypto calls the answered request made
StoreWritesOf(r) == Count(r.ops, StoreWrites)
StoreCallsOf(r) == Count(r.ops, StoreOps)
VerifiedOf(r) == Count(r.ops, {"verify"})

\* A registration that reaches the signature check: right shape, a signature
\* that is not the empty string, a well-formed public key
ReachesSignatureCheck(b) ==
    /\ RegistrationShapeOk(b)
    /\ b.signature.enc # "empty"
    /\ isValidSolanaPublicKey(b.publicKey)

\* The signature of b was made over b's canonical message by the private key
\* of the public key b claims
MadeByClaimedKey(b) ==
    b.signature = Sign(b.publicKey, RegistrationMessage(b))

KeyRegistered(publicKey) ==
    \E i \in 1..Len(casinos) : casinos[i].publicKey = publicKey

\* A heartbeat or update of the right shape
WriteShapeOk(r) ==
    IF r.kind = "heartbeat" THEN HeartbeatShapeOk(r.body)
    ELSE UpdateShapeOk(r.body)

IdKnown(r) == r.body.casinoId \in 1..Len(casinos)

-----------------------------------------------------------------------------
(* C1 *)

\* C1: in every reachable state, whatever register, heartbeat, update and
\* sweep operations have run and however they interleaved, no two rows of
\* the Casino table have the same public key.
C1_UniquePublicKeys ==
    \A i, j \in 1..Len(casinos) :
        i # j => casinos[i].publicKey # casinos[j].publicKey

\* Two registrations of one key raced past the lookup and the index refused
\* the second create.
C1_Witness ==
    /\ RegisterReply
    /\ Count(reply.req.ops, {"casino.create:refused"}) = 1
    /\ Len(casinos) >= 1


-----------------------------------------------------------------------------
(* C2 *)

\* C2: when validly signed registrations with the same public key run
\* concurrently, every one that does not succeed fails with
\* CASINO_ALREADY_EXISTS and with no other error. (A registration that went
\* past the preHandlers is validly signed.)
C2_LosersGetAlreadyExists ==
    (RegisterReply /\ reply.req.pc # "arrived" /\ ~Accepted)
        => reply.code = "CASINO_ALREADY_EXISTS"

-----------------------------------------------------------------------------
(* C3 *)

\* C3: every field but the signature, at every nesting level, is part of
\* the verified message: the signature of an accepted registration verifies
\* for no registration payload that differs from the accepted one in the
\* value of any field, a metadata sub-field included.
C3_EveryFieldIsSigned ==
    (RegisterReply /\ Accepted) =>
        \A d \in RegistrationPayloads :
            verifySolanaSignature(RegistrationMessage(d),
                                  reply.req.body.signature,
                                  reply.req.body.publicKey)
                => Signed(d, reply.req.body.signature) = reply.req.body

-----------------------------------------------------------------------------
(* C4 *)

SignerOf(r) == r.body.signature.signer
StoredKeyOf(r) == casinos[r.body.casinoId].publicKey
WriteMessageOf(r) ==
    IF r.kind = "heartbeat" THEN HeartbeatMessage(r.body)
    ELSE UpdateMessage(r.body)

\* C4: a heartbeat or update naming participant P is accepted only if its
\* signature was made with the key stored for P; one signed with any other
\* key, the key of another registered participant included, is answered
\* INVALID_SIGNATURE after no store write, and the step that answers it
\* leaves the Casino and Heartbeat tables as they were.
C4_OnlyTheStoredKeyAuthorizes ==
    /\ [](WriteReply /\ WriteShapeOk(reply.req) /\ IdKnown(reply.req) =>
            /\ Accepted => verifySolanaSignature(WriteMessageOf(reply.req),
                                                 reply.req.body.signature,
                                                 StoredKeyOf(reply.req))
            /\ SignerOf(reply.req) # StoredKeyOf(reply.req) =>
                 /\ reply.code = "INVALID_SIGNATURE"
                 /\ StoreWritesOf(reply.req) = 0)
    /\ [][(reply'.kind \in {"heartbeat", "update"}
           /\ reply'.code = "INVALID_SIGNATURE")
            => UNCHANGED <<casinos, heartbeats>>]_vars

\* A heartbeat for participant 1, signed over its own message by the key of
\* participant 2, is refused.
C4_Witness ==
    /\ reply.kind = "heartbeat" /\ reply.code = "INVALID_SIGNATURE"
    /\ reply.req.body.casinoId = 1
    /\ reply.req.body.signature =
           Sign(casinos[2].publicKey, HeartbeatMessage(reply.req.body))
    /\ casinos[1].publicKey # casinos[2].publicKey

-----------------------------------------------------------------------------
(* C5 *)

\* C5: a registration is accepted only if its signature was made over its
\* canonical message by the private key of the public key it claims; one
\* that reaches the signature check with any other signature is answered
\* INVALID_SIGNATURE and has written nothing.
C5_RegistrationNeedsTheClaimedKey ==
    RegisterReply =>
        /\ Accepted => MadeByClaimedKey(reply.req.body)
        /\ (ReachesSignatureCheck(reply.req.body)
            /\ ~MadeByClaimedKey(reply.req.body)) =>
             /\ reply.code = "INVALID_SIGNATURE"
             /\ StoreWritesOf(reply.req) = 0

\* A registration claiming K1 with a valid signature of the K2 key pair over
\* the same message is refused.
C5_Witness ==
    /\ RegisterReply /\ reply.code = "INVALID_SIGNATURE"
    /\ reply.req.body.publicKey = K1
    /\ reply.req.body.signature = Sign(K2, RegistrationMessage(reply.req.body))
    /\ casinos = <<>>

-----------------------------------------------------------------------------
(* C6 *)

\* C6: a validly signed registration whose key was registered when it
\* arrived is answered CASINO_ALREADY_EXISTS, has written nothing and the
\* step that answers it leaves the Casino table as it was; a validly signed
\* registration fails only when a row with its key is in the store, so the
\* first one for a fresh key succeeds.
C6_FirstSucceedsLaterAlreadyExist ==
    /\ [](RegisterReply /\ reply.req.pc # "arrived" =>
            /\ reply.req.existed =>
                 /\ reply.code = "CASINO_ALREADY_EXISTS"
                 /\ StoreWritesOf(reply.req) = 0
            /\ ~Accepted => KeyRegistered(reply.req.body.publicKey)
            /\ Accepted => ~reply.req.existed)
    /\ [][(reply'.kind = "register"
           /\ reply'.code = "CASINO_ALREADY_EXISTS")
            => casinos' = casinos]_vars

\* A later registration of a registered key under another name is refused.
C6_Witness ==
    /\ RegisterReply /\ reply.code = "CASINO_ALREADY_EXISTS"
    /\ reply.req.existed
    /\ \E i \in 1..Len(casinos) :
          /\ casinos[i].publicKey = reply.req.body.publicKey
          /\ casinos[i].name # reply.req.body.name

-----------------------------------------------------------------------------
(* C7 *)

\* C7: a registration that reaches the signature check with an invalid
\* signature is answered INVALID_SIGNATURE before any store call, whether or
\* not its public key is registered.
C7_SignatureBeforeStore ==
    (RegisterReply /\ ReachesSignatureCheck(reply.req.body)
     /\ ~verifySolanaSignature(RegistrationMessage(reply.req.body),
                               reply.req.body.signature,
                               reply.req.body.publicKey)) =>
        /\ reply.code = "INVALID_SIGNATURE"
        /\ StoreCallsOf(reply.req) = 0

\* An invalidly signed registration of a key that is registered gets
\* INVALID_SIGNATURE, not CASINO_ALREADY_EXISTS.
C7_Witness ==
    /\ RegisterReply /\ reply.code = "INVALID_SIGNATURE"
    /\ reply.req.existed
    /\ KeyRegistered(reply.req.body.publicKey)

-----------------------------------------------------------------------------
(* C8 *)

\* C8: a successful registration makes exactly one store write, a create
\* that appends one row and leaves every existing Casino and Heartbeat row
\* as it was; a registration rejected for any reason makes no store write
\* (in SpecRegister every step is a step of a registration).
C8_OneCreateOnSuccessOnly ==
    /\ [](RegisterReply => StoreWritesOf(reply.req)
                              = IF Accepted THEN 1 ELSE 0)
    /\ [][/\ heartbeats' = heartbeats
          /\ IF reply'.kind = "register" /\ reply'.code = "OK"
             THEN /\ Len(casinos') = Len(casinos) + 1
                  /\ SubSeq(casinos', 1, Len(casinos)) = casinos
                  /\ casinos'[Len(casinos')].publicKey
                        = reply'.req.body.publicKey
             ELSE casinos' = casinos]_vars

\* One registration was created, another was refused by the unique index
\* after it attempted the create.
C8_Witness ==
    /\ RegisterReply /\ reply.code = "INTERNAL_ERROR"
    /\ Len(casinos) = 1

-----------------------------------------------------------------------------
(* C9 *)

\* C9: a heartbeat or update of the right shape naming an id that no
\* participant has is answered CASINO_NOT_FOUND without any signature
\* verification, whatever its signature, and it writes nothing.
C9_UnknownIdNotFoundUnverified ==
    /\ [](WriteReply /\ WriteShapeOk(reply.req) /\ ~IdKnown(reply.req) =>
            /\ reply.code = "CASINO_NOT_FOUND"
            /\ VerifiedOf(reply.req) = 0
            /\ StoreWritesOf(reply.req) = 0)
    /\ [][(reply'.kind \in {"heartbeat", "update"}
           /\ reply'.code = "CASINO_NOT_FOUND")
            => UNCHANGED <<casinos, heartbeats>>]_vars

\* A heartbeat for an unknown id with an undecodable signature is answered
\* CASINO_NOT_FOUND.
C9_Witness ==
    /\ reply.kind = "heartbeat" /\ reply.code = "CASINO_NOT_FOUND"
    /\ reply.req.body.signature = GarbageSignature
    /\ ~IdKnown(reply.req)

-----------------------------------------------------------------------------
(* C10 *)

\* The Heartbeat rows that hold what heartbeat body b submitted
RowsOf(b) ==
    { i \in 1..Len(heartbeats) :
        /\ heartbeats[i].casinoId = b.casinoId
        /\ heartbeats[i].status = b.status
        /\ heartbeats[i].signature = b.signature
        /\ Some([activePlayers |-> heartbeats[i].activePlayers,
                 totalBets24h  |-> heartbeats[i].totalBets24h,
                 uptime        |-> heartbeats[i].uptime,
                 responseTime  |-> heartbeats[i].responseTime])
             = Some(OrElse(b.metrics,
                           [activePlayers |-> None, totalBets24h |-> None,
                            uptime |-> None, responseTime |-> None])) }

\* C10: every validly signed heartbeat of a registered participant is
\* accepted, at any time and whatever heartbeats came before (the interval
\* is not enforced); an accepted heartbeat has appended exactly one row,
\* which holds the participant id, the claimed status, the metrics and the
\* submitted signature, has set the participant's status to the claimed
\* one, and is acknowledged with nextHeartbeatIn 60.
C10_AcceptedHeartbeat ==
    /\ [](reply.kind = "heartbeat" =>
            /\ Accepted
            /\ Count(reply.req.ops, {"heartbeat.create"}) = 1
            /\ RowsOf(reply.req.body) # {}
            /\ casinos[reply.req.body.casinoId].status = reply.req.body.status
            /\ reply.data[1].nextHeartbeatIn = 60)
    /\ [][/\ Len(heartbeats') <= Len(heartbeats) + 1
          /\ SubSeq(heartbeats', 1, Len(heartbeats)) = heartbeats]_vars

\* A second heartbeat of a participant, sent with metrics while the clock
\* still shows the time of its first one, is accepted.
C10_Witness ==
    /\ reply.kind = "heartbeat" /\ Accepted
    /\ reply.req.body.metrics # None
    /\ Cardinality({ i \in 1..Len(heartbeats) :
                       heartbeats[i].casinoId = reply.req.body.casinoId }) = 2
    /\ heartbeats[1].timestamp = now

-----------------------------------------------------------------------------
(* C11 *)

\* C11: when a heartbeat is accepted, the record it appends and the
\* participant's lastHeartbeat both hold the server's clock at the time of
\* the write, whatever timestamp the payload carries.
C11_ServerTimeRecorded ==
    [][/\ Len(heartbeats') = Len(heartbeats) + 1
            => heartbeats'[Len(heartbeats')].timestamp = now'
       /\ (reply'.kind = "heartbeat" /\ reply'.code = "OK")
            => casinos'[reply'.req.body.casinoId].lastHeartbeat = Some(now')
      ]_vars

-----------------------------------------------------------------------------
(* C12 *)

\* The value of a column after a partial merge: the supplied value when the
\* request has the field, the value it had otherwise
Merged(supplied, old) == IF supplied = <<>> THEN old ELSE supplied[1]
MergedNullable(supplied, old) == IF supplied = <<>> THEN old ELSE supplied

\* The row an update with body b must leave, given the row it found and the
\* time the store stamps on it
ExpectedAfterUpdate(old, b, stamp) ==
    LET m == IF b.metadata = <<>> THEN NoMetadata ELSE b.metadata[1]
        l == IF m.socialLinks = <<>> THEN NoLinks ELSE m.socialLinks[1]
    IN [id              |-> old.id,
        publicKey       |-> old.publicKey,
        name            |-> Merged(b.name, old.name),
        url             |-> Merged(b.url, old.url),
        status          |-> Merged(b.status, old.status),
        description     |-> MergedNullable(m.description, old.description),
        games           |-> Merged(m.games, old.games),
        logo            |-> MergedNullable(m.logo, old.logo),
        banner          |-> MergedNullable(m.banner, old.banner),
        twitterUrl      |-> MergedNullable(l.twitter, old.twitterUrl),
        discordUrl      |-> MergedNullable(l.discord, old.discordUrl),
        telegramUrl     |-> MergedNullable(l.telegram, old.telegramUrl),
        websiteUrl      |-> MergedNullable(l.website, old.websiteUrl),
        maxBetAmount    |-> MergedNullable(m.maxBetAmount, old.maxBetAmount),
        minBetAmount    |-> MergedNullable(m.minBetAmount, old.minBetAmount),
        supportedTokens |-> Merged(m.supportedTokens, old.supportedTokens),
        version         |-> old.version,
        createdAt       |-> old.createdAt,
        updatedAt       |-> stamp,
        lastHeartbeat   |-> old.lastHeartbeat]

\* C12: the step that accepts an update sets exactly the fields the request
\* has (name, url, status, each metadata sub-field) to the supplied values;
\* every other field of the participant but updatedAt, and every other
\* participant, keeps the value it had.
C12_PartialMerge ==
    [][(reply'.kind = "update" /\ reply'.code = "OK") =>
         LET b == reply'.req.body
         IN /\ Len(casinos') = Len(casinos)
            /\ \A j \in 1..Len(casinos) :
                 casinos'[j] = IF j = b.casinoId
                               THEN ExpectedAfterUpdate(casinos[j], b,
                                                        casinos'[j].updatedAt)
                               ELSE casinos[j]
      ]_vars

\* An update of the name and the discord link alone has been accepted; the
\* description, the games and the twitter link registered before are there.
C12_Witness ==
    /\ reply.kind = "update" /\ Accepted
    /\ reply.req.body.metadata = Some(LinksOnly)
    /\ casinos[1].name = "Neo"
    /\ casinos[1].discordUrl = Some("https://b.example")
    /\ casinos[1].twitterUrl = Some("https://a.example")
    /\ casinos[1].description = Some("first")
    /\ casinos[1].games = <<"slots", "dice">>

-----------------------------------------------------------------------------
(* C13 *)

\* C13: no step of an update, a heartbeat or the sweep changes the id, the
\* public key, createdAt or the protocol version of a participant, and none
\* removes a participant.
C13_ImmutableIdentity ==
    [][/\ Len(casinos') >= Len(casinos)
       /\ \A j \in 1..Len(casinos) :
            /\ casinos'[j].id = casinos[j].id
            /\ casinos'[j].publicKey = casinos[j].publicKey
            /\ casinos'[j].createdAt = casinos[j].createdAt
            /\ casinos'[j].version = casinos[j].version
      ]_vars

\* Casino 1 has been renamed by an update, has sent a heartbeat and has just
\* been set offline by the sweep, at a time after its creation.
C13_Witness ==
    /\ reply.kind = "sweep" /\ reply.count = 1
    /\ casinos[1].name = "Neo"
    /\ casinos[1].lastHeartbeat # None
    /\ casinos[1].status = "offline"
    /\ casinos[1].updatedAt > casinos[1].createdAt

-----------------------------------------------------------------------------
(* C14 *)

\* The participants a sweep at the present time must set offline: last seen
\* before now - timeout, and online, in maintenance or suspended
Stale(j) ==
    /\ casinos[j].lastHeartbeat # None
    /\ casinos[j].lastHeartbeat[1] < now - HEARTBEAT_TIMEOUT
    /\ casinos[j].status \in {"online", "maintenance", "suspended"}

-----------------------------------------------------------------------------
(* C15 *)

\* C15: a sweep leaves untouched a participant whose latest heartbeat the
\* server accepted less than the timeout before; in particular the sweep
\* that runs right after the acceptance, at the same reading of the server
\* clock, leaves the participant as the heartbeat left it.
C15_FreshHeartbeatSurvivesSweep ==
    [][(reply.kind = "heartbeat" /\ reply.code = "OK"
        /\ reply'.kind = "sweep" /\ HEARTBEAT_TIMEOUT > 0)
         => casinos'[reply.req.body.casinoId]
               = casinos[reply.req.body.casinoId]
      ]_vars

-----------------------------------------------------------------------------
(* C16 *)

\* The heartbeats casino i has had recorded
BeatCount(i) ==
    Cardinality({k \in 1..Len(heartbeats) : heartbeats[k].casinoId = i})

\* Casino i has had n heartbeats recorded and none is being handled, and
\* the clock can still pass the timeout after the last one it has stored
Silent(i, n) ==
    /\ BeatCount(i) = n
    /\ \A r \in inflight : r.body.casinoId # i
    /\ \/ casinos[i].lastHeartbeat = None
       \/ casinos[i].lastHeartbeat[1] + HEARTBEAT_TIMEOUT < MaxClock

-----------------------------------------------------------------------------
(* C17 *)

\* The answer a is the acceptance of a heartbeat or update for casino j
\* whose signature verifies against the key stored for j
OwnerAccepted(a, j, kind) ==
    /\ a.kind = kind /\ a.code = "OK"
    /\ a.req.body.casinoId = j
    /\ verifySolanaSignature(WriteMessageOf(a.req), a.req.body.signature,
                             casinos[j].publicKey)

\* C17: a step changes a participant's status only if it is the acceptance
\* of a heartbeat for that participant (to the claimed status), the
\* acceptance of an update for it that has a status (to that status), both
\* signed with the participant's stored key, or a sweep, which sets offline.
C17_StatusChangesAuthorized ==
    [][\A j \in 1..Len(casinos) :
         casinos'[j].status # casinos[j].status =>
            \/ /\ OwnerAccepted(reply', j, "heartbeat")
               /\ casinos'[j].status = reply'.req.body.status
            \/ /\ OwnerAccepted(reply', j, "update")
               /\ reply'.req.body.status = Some(casinos'[j].status)
            \/ /\ reply'.kind = "sweep"
               /\ casinos'[j].status = "offline"
      ]_vars

\* Casino 1, suspended by its owner's update, stays suspended when a status
\* update signed by the owner of casino 2 is refused.
C17_Witness ==
    /\ reply.kind = "update" /\ reply.code = "INVALID_SIGNATURE"
    /\ reply.req.body.casinoId = 1
    /\ reply.req.body.status = Some("maintenance")
    /\ SignerOf(reply.req) = casinos[2].publicKey
    /\ casinos[1].status = "suspended"

-----------------------------------------------------------------------------
(* C18 *)

\* No heartbeat of casino j is being handled
Settled(j) == \A r \in inflight : r.body.casinoId # j

\* The status and lastHeartbeat of casino j are those of one heartbeat
\* record of j
FromOneHeartbeat(j) ==
    \E k \in 1..Len(heartbeats) :
        /\ heartbeats[k].casinoId = j
        /\ heartbeats[k].status = casinos[j].status
        /\ Some(heartbeats[k].timestamp) = casinos[j].lastHeartbeat

\* C18: of the validly signed heartbeats of one participant handled
\* concurrently, every one is accepted and appends a record of its own that
\* no later step changes or removes; once all are done there are as many
\* records as heartbeats, and the participant's status and lastHeartbeat are
\* both those of one single heartbeat among them.
C18_ConcurrentHeartbeats ==
    /\ [](reply.kind = "heartbeat" => Accepted /\ RowsOf(reply.req.body) # {})
    /\ [](inflight = {} => Len(heartbeats) = submitted)
    /\ [](\A j \in 1..Len(casinos) :
            (Settled(j) /\ BeatCount(j) > 0) => FromOneHeartbeat(j))
    /\ [][/\ Len(heartbeats') \in {Len(heartbeats), Len(heartbeats) + 1}
          /\ SubSeq(heartbeats', 1, Len(heartbeats)) = heartbeats]_vars

\* Two heartbeats of casino 1 with different statuses and timestamps
\* overlapped: the one whose record was appended first wrote the casino
\* last, and both records are there.
C18_Witness ==
    /\ inflight = {} /\ Len(heartbeats) = 2
    /\ heartbeats[1].casinoId = 1 /\ heartbeats[2].casinoId = 1
    /\ heartbeats[1].status # heartbeats[2].status
    /\ heartbeats[1].timestamp # heartbeats[2].timestamp
    /\ casinos[1].status = heartbeats[1].status
    /\ casinos[1].lastHeartbeat = Some(heartbeats[1].timestamp)
    /\ reply.kind = "heartbeat" /\ reply.req.n = 1

-----------------------------------------------------------------------------
(* C19 *)

RECURSIVE Reordered(_, _)

\* The JSON value v with the properties of every object in it, nested ones
\* included, inserted in another order: reversed, or rotated by one
Reordered(v, way) ==
    LET n == Len(v.kv)
        inner == [i \in 1..n |-> [k |-> v.kv[i].k,
                                  v |-> Reordered(v.kv[i].v, way)]]
    IN IF v.t = "arr" THEN [v EXCEPT !.kv = inner]
       ELSE IF v.t # "obj" THEN v
       ELSE IF way = "reversed"
       THEN JObj([i \in 1..n |-> inner[n + 1 - i]])
       ELSE JObj([i \in 1..n |-> inner[(i % n) + 1]])

KeyOrders == {"reversed", "rotated"}

SameMessageInAnyOrder(json) ==
    \A way \in KeyOrders :
        SignedMessage(Reordered(json, way)) = SignedMessage(json)

\* The body of the answered heartbeat or update as a JSON object
WriteJsonOf(r) ==
    IF r.kind = "heartbeat" THEN HeartbeatJson(r.body) ELSE UpdateJson(r.body)

-----------------------------------------------------------------------------
(* C20 *)

\* The Casino row with the public key of registration body b
RowOf(b) ==
    casinos[CHOOSE i \in 1..Len(casinos) : casinos[i].publicKey = b.publicKey]

LinksOf(m) == IF m.socialLinks = <<>> THEN NoLinks ELSE m.socialLinks[1]

\* The row created for b holds b's name, url, key and metadata, the status
\* online, no lastHeartbeat, version 1.0.0, and the defaults
CreatedAsRegistered(b, row) ==
    /\ row.name = b.name /\ row.url = b.url /\ row.publicKey = b.publicKey
    /\ row.status = "online" /\ row.lastHeartbeat = None
    /\ row.version = "1.0.0"
    /\ row.description = b.metadata.description
    /\ row.logo = b.metadata.logo /\ row.banner = b.metadata.banner
    /\ row.twitterUrl = LinksOf(b.metadata).twitter
    /\ row.discordUrl = LinksOf(b.metadata).discord
    /\ row.telegramUrl = LinksOf(b.metadata).telegram
    /\ row.websiteUrl = LinksOf(b.metadata).website
    /\ row.maxBetAmount = b.metadata.maxBetAmount
    /\ row.minBetAmount = b.metadata.minBetAmount
    /\ row.games = OrElse(b.metadata.games, <<>>)
    /\ row.supportedTokens = OrElse(b.metadata.supportedTokens, <<"SOL">>)

\* The participant returned for b, but for its description
ReturnedAsRegistered(b, out) ==
    /\ out.name = b.name /\ out.url = b.url /\ out.publicKey = b.publicKey
    /\ out.status = "online" /\ out.lastHeartbeat = None
    /\ out.version = "1.0.0"
    /\ out.metadata.logo = b.metadata.logo
    /\ out.metadata.banner = b.metadata.banner
    /\ out.metadata.socialLinks = LinksOf(b.metadata)
    /\ out.metadata.maxBetAmount = b.metadata.maxBetAmount
    /\ out.metadata.minBetAmount = b.metadata.minBetAmount
    /\ out.metadata.games = OrElse(b.metadata.games, <<>>)
    /\ out.metadata.supportedTokens
          = OrElse(b.metadata.supportedTokens, <<"SOL">>)

\* C20 as stated: a successful registration creates and returns a
\* participant with the input's name, url, public key and metadata, status
\* online, lastHeartbeat unset, version 1.0.0, no games when none was given
\* and the tokens <<"SOL">> when none was given.
C20_ReturnsTheInput ==
    (RegisterReply /\ Accepted) =>
        /\ CreatedAsRegistered(reply.req.body, RowOf(reply.req.body))
        /\ ReturnedAsRegistered(reply.req.body, reply.data[1])
        /\ reply.data[1].metadata.description
              = reply.req.body.metadata.description

\* What the code does: the same, but a description that is the empty string
\* is stored as given and returned as absent.
RegistrationDefaults ==
    (RegisterReply /\ Accepted) =>
        /\ CreatedAsRegistered(reply.req.body, RowOf(reply.req.body))
        /\ ReturnedAsRegistered(reply.req.body, reply.data[1])
        /\ reply.data[1].metadata.description
              = IF reply.req.body.metadata.description = Some("")
                THEN None ELSE reply.req.body.metadata.description

\* A registration that names no games and no tokens and has an empty
\* description has succeeded.
EmptyDescriptionRegistered ==
    /\ RegisterReply /\ Accepted
    /\ reply.req.body.metadata.description = Some("")
    /\ RowOf(reply.req.body).games = <<>>
    /\ RowOf(reply.req.body).supportedTokens = <<"SOL">>
    /\ RowOf(reply.req.body).description = Some("")
    /\ reply.data[1].metadata.description = None

-----------------------------------------------------------------------------
(* C21 *)

\* C21: a heartbeat signed with the participant's stored key is accepted
\* whichever of the four statuses it claims and whatever the participant's
\* status is, and the step that accepts it sets the status to the claimed
\* one, from any status.
C21_AnyStatusByHeartbeat ==
    /\ [](reply.kind = "heartbeat" /\ IdKnown(reply.req)
          /\ reply.req.body.status \in CasinoStatuses
          /\ SignerOf(reply.req) = StoredKeyOf(reply.req) => Accepted)
    /\ [][\A j \in 1..Len(casinos) : \A from, to \in CasinoStatuses :
            (/\ reply' # reply
             /\ OwnerAccepted(reply', j, "heartbeat")
             /\ casinos[j].status = from
             /\ reply'.req.body.status = to)
                => casinos'[j].status = to]_vars

\* Casino 1, suspended by its first heartbeat, is online again by its second.
C21_Witness ==
    /\ reply.kind = "heartbeat" /\ Accepted
    /\ Len(heartbeats) = 2
    /\ heartbeats[1].casinoId = 1 /\ heartbeats[1].status = "suspended"
    /\ heartbeats[2].casinoId = 1 /\ heartbeats[2].status = "online"
    /\ reply.req.body.status = "online"
    /\ casinos[1].status = "online"

-----------------------------------------------------------------------------
(* C27 *)

BadGames(m) == m.games # None /\ ~AllIn(m.games[1], GameTypes)

\* The body of request r lacks its name, or has a status or a game tag
\* outside the closed sets
Malformed(r) ==
    CASE r.kind = "register" ->
            r.body.name = "" \/ BadGames(r.body.metadata)
      [] r.kind = "heartbeat" -> r.body.status \notin CasinoStatuses
      [] r.kind = "update" ->
            \/ r.body.status # None /\ r.body.status[1] \notin CasinoStatuses
            \/ r.body.metadata # None /\ BadGames(r.body.metadata[1])
      [] OTHER -> FALSE

\* C27: a write request whose body fails shape validation is answered 400
\* VALIDATION_ERROR after no lookup, no signature verification and no store
\* write, whether or not its id is known and its signature valid, and the
\* step that answers it leaves the store as it was.
C27_ValidationFirst ==
    /\ [](reply.kind \in {"register", "heartbeat", "update"}
          /\ Malformed(reply.req) =>
             /\ reply.code = "VALIDATION_ERROR" /\ reply.http = 400
             /\ reply.req.ops = <<>>)
    /\ [][reply'.kind \in {"register", "heartbeat", "update"}
          /\ reply'.code = "VALIDATION_ERROR"
            => UNCHANGED <<casinos, heartbeats>>]_vars

\* A heartbeat with an unknown status for an id that no casino has, with an
\* undecodable signature, was refused for its shape, after an update was
\* accepted.
C27_Witness ==
    /\ reply.kind = "heartbeat" /\ reply.code = "VALIDATION_ERROR"
    /\ reply.req.body.casinoId \notin 1..Len(casinos)
    /\ reply.req.body.signature = GarbageSignature
    /\ casinos[1].name = "Neo"

-----------------------------------------------------------------------------
(* C22 *)

ListReply == reply.kind = "list" /\ Accepted

TagsOf(seq) == {seq[i] : i \in 1..Len(seq)}

\* The ids of the participants that pass filter f
MatchingIds(f) ==
    {i \in 1..Len(casinos) :
        /\ f.status # None => casinos[i].status = f.status[1]
        /\ f.games # None =>
              TagsOf(casinos[i].games) \cap TagsOf(f.games[1]) # {}}

\* The ids on a returned page
PageIds(page) == {page[k].id : k \in 1..Len(page)}

\* C22: every participant a list query returns passes the status filter and
\* shares a tag with the games filter, when they are given, and a page that
\* is large enough holds every participant that does; without a filter
\* these are all participants.
C22_ListReturnsTheMatching ==
    ListReply =>
        /\ PageIds(reply.data[1].casinos) \subseteq MatchingIds(reply.req.body)
        /\ (reply.req.body.offset = 0
            /\ reply.req.body.limit >= Len(casinos))
              => PageIds(reply.data[1].casinos) = MatchingIds(reply.req.body)
        /\ (reply.req.body.status = None /\ reply.req.body.games = None)
              => MatchingIds(reply.req.body) = 1..Len(casinos)

\* A query for roulette or dice returned the casino with slots and dice and
\* the one with dice and crash, and not the one with slots alone.
C22_Witness ==
    /\ ListReply
    /\ reply.req.body.games = Some(<<"roulette", "dice">>)
    /\ PageIds(reply.data[1].casinos) = {1, 2}
    /\ casinos[3].games = <<"slots">>

-----------------------------------------------------------------------------
(* C23 *)

\* C23: on every returned page the participants stand in descending order
\* of lastHeartbeat, and none whose lastHeartbeat is unset stands before one
\* whose lastHeartbeat is set.
C23_MostRecentlySeenFirst ==
    ListReply =>
        LET page == reply.data[1].casinos
        IN \A i, j \in 1..Len(page) :
              i < j =>
                /\ page[i].lastHeartbeat = None => page[j].lastHeartbeat = None
                /\ (page[i].lastHeartbeat # None /\ page[j].lastHeartbeat # None)
                      => page[i].lastHeartbeat[1] >= page[j].lastHeartbeat[1]

-----------------------------------------------------------------------------
(* C24 *)

\* The list requests whose page has come back: those still waiting for their
\* count, and the one just answered
PagedCalls ==
    {r \in inflight : r.kind = "list" /\ r.found # None
                      /\ r.found[1].page # None}
    \cup (IF ListReply THEN {reply.req} ELSE {})

PageOf(r) == PageIds(r.found[1].page[1])

\* Calls for the same filter and limit at offsets that are multiples of the
\* limit
SameListing(r, q) ==
    /\ r.body.status = q.body.status /\ r.body.games = q.body.games
    /\ r.body.limit = q.body.limit
    /\ r.body.offset % r.body.limit = 0 /\ q.body.offset % q.body.limit = 0

\* C24: the store is not written to. Pages for the same filter and limit at
\* different offsets 0, L, 2L, ... share no id; when the pages of all these
\* offsets have been obtained their union is the set of matching
\* participants; and total is the number of matching participants.
C24_PagesPartitionTheMatching ==
    /\ \A r, q \in PagedCalls :
          (SameListing(r, q) /\ r.body.offset # q.body.offset)
              => PageOf(r) \cap PageOf(q) = {}
    /\ \A r \in PagedCalls :
          LET calls == {q \in PagedCalls : SameListing(r, q)}
              wanted == {k \in 0..Len(casinos) :
                           /\ k % r.body.limit = 0
                           /\ k < Cardinality(MatchingIds(r.body))}
          IN (r.body.offset % r.body.limit = 0
              /\ wanted \subseteq {q.body.offset : q \in calls})
                => UNION {PageOf(q) : q \in calls} = MatchingIds(r.body)
    /\ ListReply =>
          reply.data[1].total = Cardinality(MatchingIds(reply.req.body))

-----------------------------------------------------------------------------
(* C25 *)

LookupReply == reply.kind \in {"byId", "byKey"}

\* The row the lookup names, if any
Looked(r) ==
    {i \in 1..Len(casinos) :
        IF r.kind = "byId" THEN casinos[i].id = r.body.id
        ELSE casinos[i].publicKey = r.body.publicKey}

\* C25: a lookup by id or by public key is answered with a participant
\* exactly when one with that id or key is registered, and with 404
\* CASINO_NOT_FOUND otherwise; the record returned is the one lookup by the
\* participant's id and lookup by its public key both return.
C25_PointLookups ==
    LookupReply =>
        /\ Accepted <=> Looked(reply.req) # {}
        /\ ~Accepted => reply.code = "CASINO_NOT_FOUND" /\ reply.http = 404
        /\ Accepted =>
              \E i \in Looked(reply.req) :
                 /\ reply.data[1].id = casinos[i].id
                 /\ reply.data[1].publicKey = casinos[i].publicKey
                 /\ reply.data = getCasinoById(casinos[i].id)
                 /\ reply.data = getCasinoByPublicKey(casinos[i].publicKey)

\* The lookup of casino 3 by its public key returned casino 3.
C25_Witness ==
    /\ reply.kind = "byKey" /\ Accepted
    /\ reply.req.body.publicKey = K3
    /\ reply.data[1].id = 3

-----------------------------------------------------------------------------
(* C26 *)

\* Request r as the step leaves it: still in flight, or just answered
AfterStep(r) ==
    IF \E q \in inflight' : q.n = r.n
    THEN CHOOSE q \in inflight' : q.n = r.n
    ELSE reply'.req

\* The step takes count name of statistics request r
Counts(r, name) ==
    /\ r.kind = "stats"
    /\ OrElse(r.found, NoStats)[name] = None
    /\ AfterStep(r).found # None
    /\ AfterStep(r).found[1][name] # None

\* C26: every heartbeat of SpecStats is accepted while the server clock
\* reads now, so all heartbeat records were observed within the 24 hours
\* before any statistics call. Each count of a statistics call is the number
\* at the time it is taken: all participants, the participants that are
\* online, and all heartbeat records; the answer carries the three counts.
C26_StatisticsAreCurrent ==
    /\ [][\A r \in inflight :
            /\ Counts(r, "totalCasinos") =>
                  AfterStep(r).found[1].totalCasinos = Some(Len(casinos))
            /\ Counts(r, "onlineCasinos") =>
                  AfterStep(r).found[1].onlineCasinos =
                     Some(Cardinality({i \in 1..Len(casinos) :
                                         casinos[i].status = "online"}))
            /\ Counts(r, "heartbeatsLast24h") =>
                  AfterStep(r).found[1].heartbeatsLast24h
                     = Some(Len(heartbeats))]_vars
    /\ [](reply.kind = "stats" =>
            /\ Accepted
            /\ \A name \in StatNames :
                  Some(reply.data[1][name]) = reply.req.found[1][name])

-----------------------------------------------------------------------------
(* C28 *)

\* C28: no step of a register, heartbeat, update, sweep or read operation
\* removes a participant, or removes or changes a heartbeat record: every
\* participant is still there after the step, under its id and key, and the
\* heartbeat log after the step begins with the log before it.
C28_NothingIsDeleted ==
    [][/\ Len(casinos') >= Len(casinos)
       /\ \A i \in 1..Len(casinos) :
             /\ casinos'[i].id = casinos[i].id
             /\ casinos'[i].publicKey = casinos[i].publicKey
       /\ Len(heartbeats') >= Len(heartbeats)
       /\ SubSeq(heartbeats', 1, Len(heartbeats)) = heartbeats]_vars

\* The sweep has set a casino offline whose heartbeat record is still in the
\* log, and a third casino has registered.
C28_Witness ==
    /\ reply.kind = "sweep" /\ reply.count = 1
    /\ Len(casinos) = 3
    /\ Len(heartbeats) = 1
    /\ casinos[heartbeats[1].casinoId].status = "offline"

-----------------------------------------------------------------------------
(* C29 *)

\* Why the signature of heartbeat or update r does not verify against the
\* stored key, or "none" when it does
FailureOf(r) ==
    CASE r.body.signature.enc = "garbage" -> "undecodable"
      [] r.body.signature.enc = "empty" -> "wrong length"
      [] SignerOf(r) # StoredKeyOf(r) -> "different key"
      [] r.body.signature.msg # WriteMessageOf(r) -> "different payload"
      [] OTHER -> "none"

\* C29: a heartbeat or update for an existing participant whose signature
\* does not verify is answered 401 INVALID_SIGNATURE with the one message
\* and no data, whichever way the verification failed.
C29_UniformInvalidSignature ==
    (WriteReply /\ WriteShapeOk(reply.req) /\ IdKnown(reply.req)
     /\ FailureOf(reply.req) # "none") =>
        /\ reply.code = "INVALID_SIGNATURE" /\ reply.http = 401
        /\ reply.message = "Signature verification failed"
        /\ reply.data = None

\* An update whose signature is the empty string was refused after a
\* heartbeat signed over another payload had been refused.
C29_Witness ==
    /\ reply.kind = "update" /\ reply.code = "INVALID_SIGNATURE"
    /\ FailureOf(reply.req) = "wrong length"
    /\ submitted = 2

-----------------------------------------------------------------------------
(* C30 *)

\* C30: a participant's lastHeartbeat changes only in the step that accepts
\* a heartbeat of that participant, and never to an earlier time than it
\* held.
C30_LastSeenNeverDecreases ==
    [][\A j \in 1..Len(casinos) :
         casinos'[j].lastHeartbeat # casinos[j].lastHeartbeat =>
            /\ reply' # reply
            /\ OwnerAccepted(reply', j, "heartbeat")
            /\ casinos'[j].lastHeartbeat # None
            /\ casinos[j].lastHeartbeat # None =>
                  casinos'[j].lastHeartbeat[1] >= casinos[j].lastHeartbeat[1]
      ]_vars

-----------------------------------------------------------------------------
(* C31 *)

\* The heartbeat records of participant i in the log
RecordsOf(i) == {k \in 1..Len(heartbeats) : heartbeats[k].casinoId = i}

\* A heartbeat of participant i that stands between its two store writes
BetweenWrites(i) ==
    \E r \in inflight :
        r.kind = "heartbeat" /\ r.pc = "casino.update" /\ r.body.casinoId = i

\* C31: in every reachable state, the states between the two store writes of
\* an in-flight heartbeat included, a participant whose lastHeartbeat is set
\* has a heartbeat record in the log (one that carries that timestamp), and a
\* participant without a record in the log has lastHeartbeat unset.
C31_SeenOnlyWithARecord ==
    \A i \in 1..Len(casinos) :
        /\ casinos[i].lastHeartbeat # None =>
              \E k \in RecordsOf(i) :
                  heartbeats[k].timestamp = casinos[i].lastHeartbeat[1]
        /\ RecordsOf(i) = {} => casinos[i].lastHeartbeat = None

\* A first heartbeat stands between its two writes: the record is in the
\* log and lastHeartbeat is still unset, while another participant has
\* lastHeartbeat set
C31_Witness ==
    \E i, j \in 1..Len(casinos) :
        /\ BetweenWrites(i)
        /\ RecordsOf(i) # {}
        /\ casinos[i].lastHeartbeat = None
        /\ casinos[j].lastHeartbeat # None

-----------------------------------------------------------------------------
(* C32 *)

\* Participant i has never had a heartbeat accepted
NeverSeen(i) == casinos[i].lastHeartbeat = None

-----------------------------------------------------------------------------
(* C33 *)

\* The heartbeat records that hold exactly what heartbeat body b submitted,
\* timestamp included
Replays(b) == {k \in RowsOf(b) : heartbeats[k].timestamp = b.timestamp}

\* The answered heartbeat r is a resubmission: the log holds a record of the
\* same body that r did not append itself
Resubmitted(r) ==
    Cardinality(Replays(r.body)) > Count(r.ops, {"heartbeat.create"})

\* C33: a heartbeat or update is accepted exactly when it has the right
\* shape, names a registered participant and verifies against that
\* participant's stored key, whatever came before and whatever the clock
\* shows; so a heartbeat that the log already holds, resubmitted unchanged,
\* is accepted again, has appended one more record of the same body and has
\* written its status and its timestamp to the participant again.
C33_ReplayIsAccepted ==
    /\ [](WriteReply =>
            (Accepted <=>
                /\ WriteShapeOk(reply.req)
                /\ IdKnown(reply.req)
                /\ verifySolanaSignature(WriteMessageOf(reply.req),
                                         reply.req.body.signature,
                                         StoredKeyOf(reply.req))))
    /\ [](reply.kind = "heartbeat" /\ Resubmitted(reply.req) =>
            /\ Accepted
            /\ Count(reply.req.ops, {"heartbeat.create"}) = 1
            /\ Count(reply.req.ops, {"casino.update"}) = 1
            /\ Cardinality(Replays(reply.req.body)) >= 2
            /\ casinos[reply.req.body.casinoId].status = reply.req.body.status
            /\ casinos[reply.req.body.casinoId].lastHeartbeat
                  = Some(reply.req.body.timestamp))

\* A heartbeat whose timestamp is more than the timeout behind the server
\* clock has been accepted for the second time
C33_Witness ==
    /\ reply.kind = "heartbeat" /\ Accepted
    /\ Cardinality(Replays(reply.req.body)) = 2
    /\ reply.req.body.timestamp < now - HEARTBEAT_TIMEOUT

-----------------------------------------------------------------------------
(* C34 *)

\* C34: a heartbeat and a sweep that run at the same time end with the
\* participant in the status the heartbeat claims, in either order of their
\* store writes. When the heartbeat's casino.update comes last, it sets the
\* claimed status and the timestamp whatever the sweep wrote before; when
\* the sweep's updateMany comes last, it leaves alone every participant
\* whose lastHeartbeat (the timestamp of the heartbeat written last) is
\* within the timeout of the clock the sweep read. So at every moment a
\* participant whose lastHeartbeat is within the timeout of the server clock
\* has the status of the heartbeat that wrote it (in SpecRace no heartbeat
\* claims offline and nothing else writes the status).
C34_HeartbeatSurvivesTheSweep ==
    /\ [](reply.kind = "heartbeat" /\ Accepted =>
            /\ casinos[reply.req.body.casinoId].status = reply.req.body.status
            /\ casinos[reply.req.body.casinoId].lastHeartbeat
                  = Some(reply.req.body.timestamp))
    /\ [][reply'.kind = "sweep" =>
            \A i \in 1..Len(casinos) :
                ( /\ casinos[i].lastHeartbeat # None
                  /\ casinos[i].lastHeartbeat[1] >= reply'.req.body.cutoff )
                => casinos'[i] = casinos[i]
         ]_vars
    /\ [](\A i \in 1..Len(casinos) :
            ( /\ casinos[i].lastHeartbeat # None
              /\ casinos[i].lastHeartbeat[1] >= now - HEARTBEAT_TIMEOUT )
            => \E k \in RecordsOf(i) :
                  /\ heartbeats[k].timestamp = casinos[i].lastHeartbeat[1]
                  /\ heartbeats[k].status = casinos[i].status)

\* A sweep began when participant 1 was stale; a second heartbeat, with a
\* timestamp at the sweep's cutoff, then arrived and made both its writes;
\* the sweep's updateMany came last and the participant has the status of
\* that heartbeat
C34_Witness ==
    /\ reply.kind = "sweep" /\ inflight = {}
    /\ reply.req.n = 2 /\ submitted = 2 /\ Len(heartbeats) = 2
    /\ heartbeats[1].timestamp < reply.req.body.cutoff
    /\ heartbeats[2].timestamp = reply.req.body.cutoff
    /\ heartbeats[1].status # heartbeats[2].status
    /\ casinos[1].lastHeartbeat = Some(heartbeats[2].timestamp)
    /\ casinos[1].status = heartbeats[2].status

-----------------------------------------------------------------------------
(* C35 *)

\* The columns update body b names
Named(b) == {f \in DOMAIN NoChange : UpdateData(b)[f] # None}

\* Every column that update body b names holds the value b supplied
Applied(b) ==
    \A f \in Named(b) :
        casinos[b.casinoId][f] =
            IF f \in {"name", "url", "status", "games", "supportedTokens"}
            THEN UpdateData(b)[f][1] ELSE UpdateData(b)[f]

\* C35: an accepted update has set every field it names, and a field set by
\* one update is changed afterwards only by the write of an update that
\* names one of the same fields; so when two updates of one participant
\* that name disjoint fields have both completed, in whichever order their
\* reads and writes interleaved, the fields of both have the supplied
\* values.
C35_DisjointUpdatesBothApply ==
    /\ [](reply.kind = "update" /\ Accepted => Applied(reply.req.body))
    /\ [][\A b \in PatchUpdates :
            ( /\ Applied(b)
              /\ ~( /\ reply'.kind = "update" /\ reply'.code = "OK"
                    /\ Named(reply'.req.body) \cap Named(b) # {} ) )
            => Applied(b)'
         ]_vars

\* The update of the status and a link read the participant before the
\* update of the name wrote it, and wrote after it: both are in the row
C35_Witness ==
    /\ reply.kind = "update" /\ Accepted
    /\ reply.req.body.status = Some("maintenance")
    /\ reply.req.found[1].name = "Ace"
    /\ casinos[1].name = "Neo"
    /\ casinos[1].status = "maintenance"
    /\ casinos[1].discordUrl = Some("https://b.example")

-----------------------------------------------------------------------------
(* C36 *)

\* C36: the step that accepts an update leaves the heartbeat log and every
\* participant's lastHeartbeat as they were; and when a participant whose
\* lastHeartbeat is older than the timeout has set its status to online,
\* maintenance or suspended by an update, the sweep that comes next sets it
\* offline.
C36_UpdateDoesNotCountAsSeen ==
    /\ [][(reply'.kind = "update" /\ reply'.code = "OK") =>
            /\ heartbeats' = heartbeats
            /\ \A i \in 1..Len(casinos) :
                  casinos'[i].lastHeartbeat = casinos[i].lastHeartbeat
         ]_vars
    /\ [][( /\ reply.kind = "update" /\ reply.code = "OK"
            /\ reply.req.body.status # None
            /\ reply.req.body.status[1] # "offline"
            /\ casinos[reply.req.body.casinoId].lastHeartbeat # None
            /\ casinos[reply.req.body.casinoId].lastHeartbeat[1]
                  < now - HEARTBEAT_TIMEOUT
            /\ reply'.kind = "sweep" )
            => /\ casinos'[reply.req.body.casinoId].status = "offline"
               /\ reply'.count >= 1
         ]_vars

\* The only heartbeat in the log is one of participant 1 that claimed
\* offline, long ago; the participant has since left offline by an update,
\* and a sweep has set it offline again
C36_Witness ==
    /\ reply.kind = "sweep" /\ reply.count = 1
    /\ inflight = {} /\ submitted = 2
    /\ Len(heartbeats) = 1
    /\ heartbeats[1].casinoId = 1 /\ heartbeats[1].status = "offline"
    /\ casinos[1].lastHeartbeat = Some(heartbeats[1].timestamp)
    /\ casinos[1].status = "offline"
    /\ casinos[2].lastHeartbeat = None

-----------------------------------------------------------------------------
(* C37 *)

WriteKinds == {"register", "heartbeat", "update"}

\* The canonical messages of the bodies that pass the schema of an endpoint,
\* among all that SpecCross sends to it
MessagesOf(kind) ==
    CASE kind = "register" ->
            { RegistrationMessage(RegistrationParse(b)) :
                b \in {g \in SentRegistrations : RegistrationShapeOk(g)} }
      [] kind = "heartbeat" ->
            { HeartbeatMessage(b) :
                b \in {h \in SentHeartbeats : HeartbeatShapeOk(h)} }
      [] kind = "update" ->
            { UpdateMessage(b) :
                b \in {u \in SentUpdates : UpdateShapeOk(u)} }

\* The message the endpoint of reply computes from the body it was sent
MessageOfReply ==
    CASE reply.kind = "register" -> RegistrationMessage(reply.req.body)
      [] reply.kind = "heartbeat" -> HeartbeatMessage(reply.req.body)
      [] reply.kind = "update" -> UpdateMessage(reply.req.body)

\* C37: the canonical messages of two different write protocols are never
\* equal, so an accepted request carries a signature made over a message of
\* its own protocol and of no other: a signed request captured from one
\* endpoint and sent to another, as it is or with missing properties filled
\* in, is not accepted.
C37_SignatureBoundToProtocol ==
    /\ [](\A k1, k2 \in WriteKinds :
            k1 # k2 => MessagesOf(k1) \cap MessagesOf(k2) = {})
    /\ [](reply.kind \in WriteKinds /\ Accepted =>
            /\ reply.req.body.signature.msg = MessageOfReply
            /\ MessageOfReply \in MessagesOf(reply.kind)
            /\ \A k \in WriteKinds \ {reply.kind} :
                  reply.req.body.signature.msg \notin MessagesOf(k))

\* A heartbeat's signature sent with the heartbeat's id and status to the
\* update endpoint has reached the signature check and has been refused
C37_Witness ==
    /\ reply.kind = "update" /\ reply.code = "INVALID_SIGNATURE"
    /\ reply.req.body.signature.msg \in MessagesOf("heartbeat")
    /\ reply.req.body.signature.signer = casinos[1].publicKey
    /\ reply.req.body.casinoId = 1

-----------------------------------------------------------------------------
(* C38 *)

\* The column that holds each social link
LinkColumn ==
    [twitter |-> "twitterUrl", discord |-> "discordUrl",
     telegram |-> "telegramUrl", website |-> "websiteUrl"]

LinkColumns == {LinkColumn[x] : x \in DOMAIN LinkColumn}

\* C38: the step that accepts an update whose metadata carries socialLinks
\* sets each link the request supplies to the supplied value and leaves
\* each link it does not supply as it was, set or unset; an update that
\* carries nothing but links leaves every other column but updatedAt as it
\* was, and the response shows the merged links.
C38_LinksMergeOneByOne ==
    [][( /\ reply'.kind = "update" /\ reply'.code = "OK"
         /\ reply'.req.body.metadata # None
         /\ reply'.req.body.metadata[1].socialLinks # None ) =>
         LET b  == reply'.req.body
             l  == b.metadata[1].socialLinks[1]
             id == b.casinoId
         IN /\ \A x \in DOMAIN LinkColumn :
                  /\ casinos'[id][LinkColumn[x]] =
                        IF l[x] # None THEN l[x]
                        ELSE casinos[id][LinkColumn[x]]
                  /\ reply'.data[1].metadata.socialLinks[x] =
                        casinos'[id][LinkColumn[x]]
            /\ b = [Update(id, None, None,
                           Some([NoMetadata EXCEPT !.socialLinks = Some(l)]))
                      EXCEPT !.signature = b.signature]
               => \A f \in DOMAIN casinos[id] \ (LinkColumns \cup {"updatedAt"}) :
                     casinos'[id][f] = casinos[id][f]
      ]_vars

\* An update of twitter and telegram alone has been accepted: both are set,
\* the website link registered before and the discord link set by an
\* earlier update are still there, and so are description and games
C38_Witness ==
    /\ reply.kind = "update" /\ Accepted
    /\ reply.req.body.metadata[1].socialLinks =
          Some([NoLinks EXCEPT !.twitter = Some("https://b.example"),
                               !.telegram = Some("https://b.example")])
    /\ casinos[1].twitterUrl = Some("https://b.example")
    /\ casinos[1].telegramUrl = Some("https://b.example")
    /\ casinos[1].discordUrl = Some("https://a.example")
    /\ casinos[1].websiteUrl = Some("https://a.example")
    /\ casinos[1].description = Some("first")
    /\ casinos[1].games = <<"slots", "dice">>
    /\ casinos[1].maxBetAmount = Some(100)

-----------------------------------------------------------------------------
(* C39 *)

\* C39: every list response holds at most limit participants and at most
\* total participants, whatever registrations, heartbeats, updates and
\* sweeps run between the query for the page and the query for the total.
C39_PageWithinLimitAndTotal ==
    ListReply =>
        /\ Len(reply.data[1].casinos) <= reply.data[1].limit
        /\ Len(reply.data[1].casinos) <= reply.data[1].total

=============================================================================
